---- MODULE Spec2Model ----
(***************************************************************************)
(* A model of the markdown-to-Word converter (patrickshomo/markdown-mcp):  *)
(* the batch loops, the tool wrappers of the two servers, the image and    *)
(* mermaid pre-processing filters, the conversion pipeline and the         *)
(* template manager.  Each part has its own variables and specification;   *)
(* a specification leaves the variables of the other parts at rest.        *)
(***************************************************************************)
EXTENDS Integers, Sequences, FiniteSets, TLC

\* --------------------------------------------------------------- variables
\* Part 1: the batch loops.
VARIABLES
    mdOnDisk,      \* the markdown files that exist
    dirsOnDisk,    \* the directories that exist
    docxOnDisk,    \* output path -> the markdown path whose document it holds
    fsAtCall,      \* <<dirsOnDisk, docxOnDisk>> when the current call started
    bOp,           \* the batch function being executed
    bArg,          \* its arguments: input directory / file list, output directory
    bFiles,        \* the list the per-file loop walks (file_paths, md_files, markdown_files)
    bIdx,          \* position of the loop in bFiles
    results,       \* the result entries appended so far
    happened,      \* what the environment did to each file walked so far
    successful_conversions,   \* enhanced_server's counter
    bRet,          \* what the call returned
    bPc            \* "idle", "loop", "done"

batchVars == <<mdOnDisk, dirsOnDisk, docxOnDisk, fsAtCall, bOp, bArg, bFiles, bIdx,
               results, happened, successful_conversions, bRet, bPc>>

\* Part 2: the convert_markdown_to_docx tools.
VARIABLES
    converter,     \* enhanced_server's global converter: "None" or "created"
    toolDisk,      \* saved documents: path -> the markdown the document was made from
    tTool,         \* the server whose tool is being executed
    tArgs,         \* its arguments
    tPc,           \* "idle", "convert", "save", "stats", "done"
    tDone,         \* the steps of the try block that have completed
    tRet,          \* what the call returned
    tPrev          \* the call before the current one: its tool, document, path and return

toolVars == <<converter, toolDisk, tTool, tArgs, tPc, tDone, tRet, tPrev>>

\* Part 3: ImageHandler.process_images.
VARIABLES
    iContent,      \* the content process_images was called with
    image_matches, \* matches: what findall returned, <<alt_text, image_path>> records
    iIdx,          \* position of the loop in image_matches
    iProcessed,    \* processed_content
    iDoc,          \* the pictures added to the document, in order
    iHappened,     \* what _add_image_to_doc did for each match handled so far
    iPc            \* "idle", "loop", "done"

imageVars == <<iContent, image_matches, iIdx, iProcessed, iDoc, iHappened, iPc>>

\* Part 4: MermaidHandler.process_mermaid.
VARIABLES
    mContent,          \* the content process_mermaid was called with
    mermaid_available, \* what _check_mermaid_cli found when the handler was built
    mermaid_matches,   \* matches: the mermaid_code of every block findall returned
    mIdx,              \* position of the loop in mermaid_matches
    mProcessed,        \* processed_content (the returned text once mPc is "done")
    mDoc,              \* the pictures added to the document, in order
    mHappened,         \* what happened to each block handled so far
    mPc                \* "idle", "loop", "done"

mermaidVars == <<mContent, mermaid_available, mermaid_matches, mIdx, mProcessed, mDoc,
                 mHappened, mPc>>

\* Part 5: TemplateManager and the list_available_templates tool.
VARIABLES
    tmFiles,       \* the files of the template directories
    template_dirs, \* self.template_dirs of the manager
    tmOp,          \* the function that was called, "none" before the call
    tmArg,         \* its argument
    templates,     \* the list list_templates returned to it
    tmRet          \* what the call returned

templateVars == <<tmFiles, template_dirs, tmOp, tmArg, templates, tmRet>>

\* Part 6: convert of MarkdownConverter and SimpleImprovedConverter.
VARIABLES
    cClass,             \* the class of the converter
    self_template_path, \* self.template_path, set by the constructor
    cArgs,              \* the arguments of the convert call
    cMermaidAvailable,  \* self.mermaid_handler.mermaid_available
    cPc,                \* "idle", "metadata", "preprocess", "images", "mermaid", "main", "done", "raised"
    cLog,               \* the steps of convert that ran, in order
    template_path,      \* the local template_path of convert
    cDocFrom,           \* what doc was created from: a template path or Blank
    cDoc,               \* the body of doc
    core_props,         \* doc.core_properties, as <<key, value>> pairs
    processed_content,  \* the local processed_content of convert
    cFound,             \* what the two filters matched in the text they were given
    cMainInput          \* the text the main pass was given

convertVars == <<cClass, self_template_path, cArgs, cMermaidAvailable, cPc, cLog,
                 template_path, cDocFrom, cDoc, core_props, processed_content, cFound,
                 cMainInput>>

\* Part 7: the loop of MarkdownConverter._convert_content.
VARIABLES
    ccContent,     \* content, the text _convert_content was called with
    ccLines,       \* lines: content.split('\n')
    ccI,           \* i: the line index of the loop (the first line has index 0)
    ccBody,        \* the paragraphs, headings and tables added to doc, in order
    ccIter,        \* one entry per iteration made: its branch, i before and after it, how many elements it added
    ccPc           \* "off", "idle", "loop", "done"

contentVars == <<ccContent, ccLines, ccI, ccBody, ccIter, ccPc>>

\* Part 8: StyleMapper.
VARIABLES
    style_maps,    \* self._style_map of every StyleMapper instance
    smBefore,      \* style_maps before the last call
    smCall,        \* the last call made and its arguments
    smRet,         \* what the last call returned
    smUpdates      \* the number of update_style_mapping calls made

styleVars == <<style_maps, smBefore, smCall, smRet, smUpdates>>

\* Part 9: the tree walker of SimpleImprovedConverter._convert_html_to_docx.
VARIABLES
    wkRoot,        \* root: the element tree ET.fromstring returned
    wkIdx,         \* position of "for child in root" among the children of root
    wkDoc,         \* the paragraphs, headings and tables added to doc, in order
    wkPc           \* "off", "idle", "children", "text", "done"

walkVars == <<wkRoot, wkIdx, wkDoc, wkPc>>

\* Part 10: the text functions _preprocess_markdown and validate_markdown.
VARIABLES
    txOp,          \* the function that was called, "none" before the call
    txArg,         \* the text it was called with
    txRet          \* what it returned

textVars == <<txOp, txArg, txRet>>

\* Part 11: MarkdownConverter._process_inline_formatting.
VARIABLES
    fmText,        \* text: the line the function was called with
    fmPos,         \* where finditer goes on searching
    fmRuns,        \* the runs added to para, in order
    fmPc           \* "off", "idle", "loop", "done"

formatVars == <<fmText, fmPos, fmRuns, fmPc>>

\* The parts added after the first six.
laterVars == <<contentVars, styleVars, walkVars, textVars, formatVars>>

vars == <<batchVars, toolVars, imageVars, mermaidVars, templateVars, convertVars, laterVars>>

\* What the actions of one part leave alone.
nonBatchVars == <<toolVars, imageVars, mermaidVars, templateVars, convertVars, laterVars>>
nonToolVars == <<batchVars, imageVars, mermaidVars, templateVars, convertVars, laterVars>>
nonImageVars == <<batchVars, toolVars, mermaidVars, templateVars, convertVars, laterVars>>
nonMermaidVars == <<batchVars, toolVars, imageVars, templateVars, convertVars, laterVars>>
nonTemplateVars == <<batchVars, toolVars, imageVars, mermaidVars, convertVars, laterVars>>
nonConvertVars == <<batchVars, toolVars, imageVars, mermaidVars, templateVars, laterVars>>
firstVars == <<batchVars, toolVars, imageVars, mermaidVars, templateVars, convertVars>>
nonContentVars == <<firstVars, styleVars, walkVars, textVars, formatVars>>
nonStyleVars == <<firstVars, contentVars, walkVars, textVars, formatVars>>
nonWalkVars == <<firstVars, contentVars, styleVars, textVars, formatVars>>
nonTextVars == <<firstVars, contentVars, styleVars, walkVars, formatVars>>
nonFormatVars == <<firstVars, contentVars, styleVars, walkVars, textVars>>

\* ------------------------------------------------------------------ bounds
MaxFiles == 2      \* longest file list of one batch call
MaxPieces == 3     \* most pieces a content of the image and mermaid filters is put together from
MaxTemplates == 2  \* most files in the template directories
MaxDirs == 2       \* longest template_dirs list
MaxParts == 2      \* most pieces a content given to convert is put together from
MaxConvertTemplates == 1   \* most files in the template directories of a converter
MaxLines == 3      \* most lines of a content given to _convert_content
MaxUpdates == 2    \* most update_style_mapping calls
MaxChildren == 2   \* most children of the root element given to the tree walker
MaxTextParts == 3  \* most pieces a text given to the text functions is put together from
MaxInlineParts == 3   \* most pieces a line given to _process_inline_formatting is put together from

\* ------------------------------------------------------------ common values
\* Python's None where a path is expected (paths are tuples).
None == <<>>
\* Python's None where a name (a string) is expected.
NoName == "<None>"

\* The state of a call that has not returned, and of one that raised.
NoReturn == [pending |-> TRUE]
Raised == [raised |-> TRUE]

RECURSIVE SeqsUpTo(_, _)
\* All sequences over S of length 0..n.
SeqsUpTo(S, n) ==
    IF n = 0 THEN {<<>>}
    ELSE LET shorter == SeqsUpTo(S, n - 1)
         IN shorter \cup {Append(s, x) : s \in {t \in shorter : Len(t) = n - 1}, x \in S}

\* Whether the word sequence words occurs in the text text (a sequence of words).
ContainsWords(text, words) ==
    \E i \in 0..(Len(text) - Len(words)) :
        \A k \in 1..Len(words) : text[i + k] = words[k]

(***************************************************************************)
(* PART 1: the batch loops.                                                *)
(* A markdown path is <<directory, stem>>; an output path is               *)
(* <<output directory, stem, "docx">>.                                      *)
(***************************************************************************)
InDirs == {<<"docs">>, <<"notes">>}
OutDirs == {<<"out">>}
MdPaths == {<<<<"docs">>, "a">>, <<<<"notes">>, "a">>, <<<<"docs">>, "b">>}

\* Path(p).stem
Stem(p) == p[2]
\* A variant of OutputFile that names the document after the directory of the
\* input file.
OutputFileByDirectory(output_dir, md_file) == <<output_dir, md_file[1][1], "docx">>

\* output_path / f"{md_file.stem}.docx"
OutputFile(output_dir, md_file) == <<output_dir, Stem(md_file), "docx">>

\* What can happen to one file inside the try block of a loop body.
Outcomes == {"ok", "read_raises", "convert_raises", "save_raises", "stat_raises"}

\* str(e) of the exception a failed step raises.
StrE(outcome) == <<outcome>>

MsgDirNotFound == <<"Input", "directory", "not", "found", ":">>
MsgNoMarkdown == <<"No", "markdown", "files", "found", "in", "directory">>
MsgFileNotFound == <<"File", "not", "found">>
MsgDirNotExist == <<"Input", "directory", "does", "not", "exist", ":">>
MsgBatchFailed == <<"Batch", "conversion", "failed">>

\* batch_processor.py: the entry of a converted file.
SuccessEntry(input, output) ==
    [input |-> input, output |-> output, status |-> "success"]

\* A variant of ErrorEntry that keeps an output path in the entry of a failed file.
ErrorEntryKeepsOutput(input, msg) ==
    [input |-> input, output |-> input, status |-> "error", error |-> msg]

\* batch_processor.py: the entry of a file that was not found or whose
\* read, conversion or save raised.
ErrorEntry(input, msg) ==
    [input |-> input, output |-> None, status |-> "error", error |-> msg]

\* A variant of Summary whose "processed" counts the converted files only.
SummaryCountsConverted(rs) ==
    [processed |-> Len(SelectSeq(rs, LAMBDA r : r.status = "success")),
     successful |-> Len(SelectSeq(rs, LAMBDA r : r.status = "success")),
     failed |-> Len(SelectSeq(rs, LAMBDA r : r.status = "error")),
     results |-> rs]

\* batch_processor.py: the summary both functions return after the loop.
Summary(rs) ==
    [processed |-> Len(rs),
     successful |-> Len(SelectSeq(rs, LAMBDA r : r.status = "success")),
     failed |-> Len(SelectSeq(rs, LAMBDA r : r.status = "error")),
     results |-> rs]

\* All orders in which glob may list the set S of paths.
Listings(S) ==
    {s \in SeqsUpTo(S, Cardinality(S)) :
        Len(s) = Cardinality(S) /\ \A i, j \in 1..Len(s) : i # j => s[i] # s[j]}

\* input_path.glob("*.md")
GlobMd(input_dir) == {p \in mdOnDisk : p[1] = input_dir}

InitBatch ==
    /\ mdOnDisk \in SUBSET MdPaths
    /\ dirsOnDisk \in {D \cup {p[1] : p \in mdOnDisk} : D \in SUBSET InDirs}
    /\ docxOnDisk = << >>
    /\ fsAtCall = <<dirsOnDisk, docxOnDisk>>
    /\ bOp = "none"
    /\ bArg = << >>
    /\ bFiles = << >>
    /\ bIdx = 1
    /\ results = << >>
    /\ happened = << >>
    /\ successful_conversions = 0
    /\ bRet = NoReturn
    /\ bPc = "idle"

\* A new call starts: the state every batch function sets before anything else.
BeginCall(op, arg) ==
    /\ bPc = "idle"
    /\ bOp' = op
    /\ bArg' = arg
    /\ fsAtCall' = <<dirsOnDisk, docxOnDisk>>
    /\ results' = << >>
    /\ happened' = << >>
    /\ successful_conversions' = 0
    /\ bIdx' = 1

\* BatchProcessor.process_files up to the loop: mkdir of the output directory
\* (outside any try: its exception propagates).
CallProcessFiles ==
    \E file_paths \in SeqsUpTo(MdPaths, MaxFiles), output_dir \in OutDirs, mkdirOk \in BOOLEAN :
        /\ BeginCall("process_files", <<file_paths, output_dir>>)
        /\ IF mkdirOk
           THEN /\ dirsOnDisk' = dirsOnDisk \cup {output_dir}
                /\ bFiles' = file_paths
                /\ bPc' = "loop"
                /\ bRet' = NoReturn
           ELSE /\ dirsOnDisk' = dirsOnDisk
                /\ bFiles' = << >>
                /\ bPc' = "done"
                /\ bRet' = Raised
        /\ UNCHANGED <<mdOnDisk, docxOnDisk>>
    /\ UNCHANGED nonBatchVars

\* One iteration of the loop of process_files.
ProcessFilesStep ==
    /\ bPc = "loop" /\ bOp = "process_files" /\ bIdx <= Len(bFiles)
    /\ LET file_path == bFiles[bIdx]
           output_file == OutputFile(bArg[2], file_path)
       IN IF file_path \notin mdOnDisk
          THEN /\ results' = Append(results, ErrorEntry(file_path, MsgFileNotFound))
               /\ happened' = Append(happened, "missing")
               /\ UNCHANGED docxOnDisk
          ELSE \E outcome \in Outcomes \ {"stat_raises"} :
               /\ happened' = Append(happened, outcome)
               /\ IF outcome = "ok"
                  THEN /\ docxOnDisk' = [q \in DOMAIN docxOnDisk \cup {output_file} |->
                                            IF q = output_file THEN file_path ELSE docxOnDisk[q]]
                       /\ results' = Append(results, SuccessEntry(file_path, output_file))
                  ELSE /\ UNCHANGED docxOnDisk
                       /\ results' = Append(results, ErrorEntry(file_path, StrE(outcome)))
    /\ bIdx' = bIdx + 1
    /\ UNCHANGED <<mdOnDisk, dirsOnDisk, fsAtCall, bOp, bArg, bFiles,
                   successful_conversions, bRet, bPc>>
    /\ UNCHANGED nonBatchVars

\* The return of process_files and process_directory after the loop.
BatchProcessorReturn ==
    /\ bPc = "loop" /\ bOp \in {"process_files", "process_directory"}
    /\ bIdx > Len(bFiles)
    /\ bRet' = Summary(results)
    /\ bPc' = "done"
    /\ UNCHANGED <<mdOnDisk, dirsOnDisk, docxOnDisk, fsAtCall, bOp, bArg, bFiles, bIdx,
                   results, happened, successful_conversions>>
    /\ UNCHANGED nonBatchVars

\* A variant of DirsMadeByProcessDirectory that makes the output directory
\* before it looks at the input directory.
DirsMadeBeforeCheck(input_dir, output_dir, mkdirOk) ==
    IF mkdirOk THEN {output_dir} ELSE {}

\* The directories process_directory makes before its loop: none when the
\* input directory is missing (it returns first) or when mkdir raises.
DirsMadeByProcessDirectory(input_dir, output_dir, mkdirOk) ==
    IF input_dir \notin dirsOnDisk THEN {}
    ELSE IF mkdirOk THEN {output_dir} ELSE {}

\* BatchProcessor.process_directory up to the loop: the input directory check,
\* mkdir of the output directory (outside any try) and the glob.
CallProcessDirectory ==
    \E input_dir \in InDirs, output_dir \in OutDirs, mkdirOk \in BOOLEAN :
    \E md_files \in Listings(GlobMd(input_dir)) :
        /\ BeginCall("process_directory", <<input_dir, output_dir>>)
        /\ dirsOnDisk' = dirsOnDisk \cup DirsMadeByProcessDirectory(input_dir, output_dir, mkdirOk)
        /\ IF input_dir \notin dirsOnDisk
           THEN /\ bRet' = [error |-> MsgDirNotFound \o <<input_dir>>]
                /\ bPc' = "done"
                /\ bFiles' = << >>
           ELSE IF ~mkdirOk
           THEN /\ bRet' = Raised
                /\ bPc' = "done"
                /\ bFiles' = << >>
           ELSE /\ bFiles' = md_files
                /\ IF md_files = << >>
                   THEN bRet' = [error |-> MsgNoMarkdown] /\ bPc' = "done"
                   ELSE bRet' = NoReturn /\ bPc' = "loop"
        /\ UNCHANGED <<mdOnDisk, docxOnDisk>>
    /\ UNCHANGED nonBatchVars

\* One iteration of the loop of process_directory.
ProcessDirectoryStep ==
    /\ bPc = "loop" /\ bOp = "process_directory" /\ bIdx <= Len(bFiles)
    /\ LET md_file == bFiles[bIdx]
           output_file == OutputFile(bArg[2], md_file)
       IN \E outcome \in Outcomes \ {"stat_raises"} :
          /\ happened' = Append(happened, outcome)
          /\ IF outcome = "ok"
             THEN /\ docxOnDisk' = [q \in DOMAIN docxOnDisk \cup {output_file} |->
                                       IF q = output_file THEN md_file ELSE docxOnDisk[q]]
                  /\ results' = Append(results, SuccessEntry(md_file, output_file))
             ELSE /\ UNCHANGED docxOnDisk
                  /\ results' = Append(results, ErrorEntry(md_file, StrE(outcome)))
    /\ bIdx' = bIdx + 1
    /\ UNCHANGED <<mdOnDisk, dirsOnDisk, fsAtCall, bOp, bArg, bFiles,
                   successful_conversions, bRet, bPc>>
    /\ UNCHANGED nonBatchVars

\* enhanced_server.py: input_path / "converted"
ConvertedDir(input_directory) == <<input_directory, "converted">>

\* enhanced_server.py: the entry of a converted file (file_size left out).
ServerSuccessEntry(md_file, output_file) ==
    [input_file |-> md_file, output_file |-> output_file, success |-> TRUE]

\* enhanced_server.py: the entry of a file whose read, conversion, save or stat raised.
ServerErrorEntry(md_file, msg) ==
    [input_file |-> md_file, output_file |-> None, success |-> FALSE, error |-> msg]

\* enhanced_server.py: the dictionary returned after the loop.
ServerSummary(markdown_files, rs, ok, output_path) ==
    [success |-> TRUE,
     files_processed |-> Len(markdown_files),
     successful_conversions |-> ok,
     failed_conversions |-> Len(markdown_files) - ok,
     output_directory |-> output_path,
     results |-> rs]

\* enhanced_server.batch_convert_directory up to the loop; everything is inside
\* the outer try, so a failing setup or mkdir returns the failure dictionary.
CallBatchConvertDirectory ==
    \E input_directory \in InDirs, output_directory \in OutDirs \cup {None},
       setupOk \in BOOLEAN, mkdirOk \in BOOLEAN :
    \E markdown_files \in Listings(GlobMd(input_directory)) :
        LET output_path == IF output_directory # None THEN output_directory
                           ELSE ConvertedDir(input_directory)
        IN
        /\ BeginCall("batch_convert_directory", <<input_directory, output_path>>)
        /\ IF ~setupOk
           THEN /\ bRet' = [success |-> FALSE, error |-> StrE("setup_raises"),
                            results |-> << >>, message |-> MsgBatchFailed]
                /\ bPc' = "done" /\ bFiles' = << >>
                /\ UNCHANGED dirsOnDisk
           ELSE IF input_directory \notin dirsOnDisk
           THEN /\ bRet' = [success |-> FALSE,
                            error |-> MsgDirNotExist \o <<input_directory>>,
                            results |-> << >>]
                /\ bPc' = "done" /\ bFiles' = << >>
                /\ UNCHANGED dirsOnDisk
           ELSE IF ~mkdirOk
           THEN /\ bRet' = [success |-> FALSE, error |-> StrE("mkdir_raises"),
                            results |-> << >>, message |-> MsgBatchFailed]
                /\ bPc' = "done" /\ bFiles' = << >>
                /\ UNCHANGED dirsOnDisk
           ELSE /\ dirsOnDisk' = dirsOnDisk \cup {output_path}
                /\ bFiles' = markdown_files
                /\ IF markdown_files = << >>
                   THEN /\ bRet' = [success |-> TRUE, results |-> << >>, files_processed |-> 0]
                        /\ bPc' = "done"
                   ELSE /\ bRet' = NoReturn
                        /\ bPc' = "loop"
        /\ UNCHANGED <<mdOnDisk, docxOnDisk>>
    /\ UNCHANGED nonBatchVars

\* One iteration of the loop of batch_convert_directory.  The document is on
\* disk once save has returned, also when the stat that follows raises.
BatchConvertStep ==
    /\ bPc = "loop" /\ bOp = "batch_convert_directory" /\ bIdx <= Len(bFiles)
    /\ LET md_file == bFiles[bIdx]
           output_file == OutputFile(bArg[2], md_file)
       IN \E outcome \in Outcomes :
          /\ happened' = Append(happened, outcome)
          /\ docxOnDisk' = IF outcome \in {"ok", "stat_raises"}
                           THEN [q \in DOMAIN docxOnDisk \cup {output_file} |->
                                    IF q = output_file THEN md_file ELSE docxOnDisk[q]]
                           ELSE docxOnDisk
          /\ IF outcome = "ok"
             THEN /\ results' = Append(results, ServerSuccessEntry(md_file, output_file))
                  /\ successful_conversions' = successful_conversions + 1
             ELSE /\ results' = Append(results, ServerErrorEntry(md_file, StrE(outcome)))
                  /\ UNCHANGED successful_conversions
    /\ bIdx' = bIdx + 1
    /\ UNCHANGED <<mdOnDisk, dirsOnDisk, fsAtCall, bOp, bArg, bFiles, bRet, bPc>>
    /\ UNCHANGED nonBatchVars

\* The return of batch_convert_directory after the loop.
BatchConvertReturn ==
    /\ bPc = "loop" /\ bOp = "batch_convert_directory"
    /\ bIdx > Len(bFiles)
    /\ bRet' = ServerSummary(bFiles, results, successful_conversions, bArg[2])
    /\ bPc' = "done"
    /\ UNCHANGED <<mdOnDisk, dirsOnDisk, docxOnDisk, fsAtCall, bOp, bArg, bFiles, bIdx,
                   results, happened, successful_conversions>>
    /\ UNCHANGED nonBatchVars

NextBatch ==
    \/ CallProcessFiles
    \/ ProcessFilesStep
    \/ CallProcessDirectory
    \/ ProcessDirectoryStep
    \/ BatchProcessorReturn
    \/ CallBatchConvertDirectory
    \/ BatchConvertStep
    \/ BatchConvertReturn

\* server.py (the Pandoc server): what can happen to one file in the loop body.
\* PandocConverter.convert writes the output file itself.
PandocOutcomes == {"ok", "read_raises", "convert_raises"}

\* A variant of ServerBatchFailure that reports a list of converted files.
ServerBatchFailureWithList(e) ==
    [success |-> FALSE, error |-> e, converted_files |-> << >>, message |-> MsgBatchFailed]

\* server.py: the dictionary of the except branch of batch_convert_directory.
ServerBatchFailure(e) ==
    [success |-> FALSE, error |-> e, message |-> MsgBatchFailed]

\* server.py: the dictionary returned after the loop.
ServerBatchSuccess(converted_files) ==
    [success |-> TRUE, converted_files |-> converted_files, count |-> Len(converted_files),
     message |-> <<"Successfully", "converted", Len(converted_files), "files">>]

\* server.batch_convert_directory up to the loop: mkdir of the output
\* directory inside the try, then the glob (empty for a missing directory).
\* The list converted_files is kept in results.
CallServerBatchConvertDirectory ==
    \E input_directory \in InDirs, output_directory \in OutDirs, mkdirOk \in BOOLEAN :
    \E md_files \in Listings(GlobMd(input_directory)) :
        /\ BeginCall("server_batch_convert_directory", <<input_directory, output_directory>>)
        /\ IF ~mkdirOk
           THEN /\ bRet' = ServerBatchFailure(StrE("mkdir_raises"))
                /\ bPc' = "done" /\ bFiles' = << >>
                /\ UNCHANGED dirsOnDisk
           ELSE /\ dirsOnDisk' = dirsOnDisk \cup {output_directory}
                /\ bFiles' = md_files
                /\ bRet' = NoReturn
                /\ bPc' = "loop"
        /\ UNCHANGED <<mdOnDisk, docxOnDisk>>
    /\ UNCHANGED nonBatchVars

\* One iteration of the loop of server.batch_convert_directory: an exception
\* leaves the loop and the function through the except branch.
ServerBatchConvertStep ==
    /\ bPc = "loop" /\ bOp = "server_batch_convert_directory" /\ bIdx <= Len(bFiles)
    /\ LET md_file == bFiles[bIdx]
           output_file == OutputFile(bArg[2], md_file)
       IN \E outcome \in PandocOutcomes :
          /\ happened' = Append(happened, outcome)
          /\ IF outcome = "ok"
             THEN /\ docxOnDisk' = [q \in DOMAIN docxOnDisk \cup {output_file} |->
                                       IF q = output_file THEN md_file ELSE docxOnDisk[q]]
                  /\ results' = Append(results, output_file)
                  /\ bIdx' = bIdx + 1
                  /\ UNCHANGED <<bRet, bPc>>
             ELSE /\ bRet' = ServerBatchFailure(StrE(outcome))
                  /\ bPc' = "done"
                  /\ UNCHANGED <<docxOnDisk, results, bIdx>>
    /\ UNCHANGED <<mdOnDisk, dirsOnDisk, fsAtCall, bOp, bArg, bFiles, successful_conversions>>
    /\ UNCHANGED nonBatchVars

\* The return of server.batch_convert_directory after the loop.
ServerBatchConvertReturn ==
    /\ bPc = "loop" /\ bOp = "server_batch_convert_directory"
    /\ bIdx > Len(bFiles)
    /\ bRet' = ServerBatchSuccess(results)
    /\ bPc' = "done"
    /\ UNCHANGED <<mdOnDisk, dirsOnDisk, docxOnDisk, fsAtCall, bOp, bArg, bFiles, bIdx,
                   results, happened, successful_conversions>>
    /\ UNCHANGED nonBatchVars

\* server.py is a program of its own: its tool runs without BatchProcessor
\* and without enhanced_server.
NextServerBatch ==
    \/ CallServerBatchConvertDirectory
    \/ ServerBatchConvertStep
    \/ ServerBatchConvertReturn

\* ---------------------------------------------------------- claims, part 1

\* The per-file loop of the current call was reached and the call is over.
LoopReachedAndDone ==
    /\ bPc = "done"
    /\ \/ Len(bFiles) > 0
       \/ bOp = "process_files" /\ "raised" \notin DOMAIN bRet

\* C1: a batch call that reaches the per-file loop returns a summary with exactly
\* one result entry per input file, in input order, every entry a success or an
\* error, and processed (files_processed) = number of entries = successful + failed.
C1_BatchSummaryConsistent ==
    LoopReachedAndDone =>
        IF bOp = "batch_convert_directory"
        THEN /\ {"files_processed", "results", "successful_conversions",
                 "failed_conversions"} \subseteq DOMAIN bRet
             /\ Len(bRet.results) = Len(bFiles)
             /\ \A i \in 1..Len(bFiles) :
                    /\ bRet.results[i].input_file = bFiles[i]
                    /\ bRet.results[i].success \in BOOLEAN
             /\ bRet.files_processed = Len(bRet.results)
             /\ bRet.files_processed = bRet.successful_conversions + bRet.failed_conversions
             /\ bRet.successful_conversions =
                    Cardinality({i \in 1..Len(bFiles) : bRet.results[i].success})
        ELSE /\ {"processed", "results", "successful", "failed"} \subseteq DOMAIN bRet
             /\ Len(bRet.results) = Len(bFiles)
             /\ \A i \in 1..Len(bFiles) :
                    /\ bRet.results[i].input = bFiles[i]
                    /\ bRet.results[i].status \in {"success", "error"}
             /\ bRet.processed = Len(bRet.results)
             /\ bRet.processed = bRet.successful + bRet.failed

\* C1 witness: a process_files call over two files ended with one converted and one failed.
C1_Witness ==
    /\ bPc = "done" /\ bOp = "process_files" /\ Len(bFiles) = 2
    /\ "processed" \in DOMAIN bRet
    /\ bRet.successful = 1 /\ bRet.failed = 1

\* C2: in process_files and process_directory a file that is missing or whose read,
\* conversion or save raises gets an entry with status "error" and output None, every
\* later file is still processed (a later file that converts gets its success entry),
\* and the call returns the summary instead of raising.
C2_PerFileErrorIsolation ==
    (LoopReachedAndDone /\ bOp \in {"process_files", "process_directory"}) =>
        /\ "raised" \notin DOMAIN bRet
        /\ "results" \in DOMAIN bRet
        /\ Len(happened) = Len(bFiles)
        /\ Len(bRet.results) = Len(bFiles)
        /\ \A i \in 1..Len(bFiles) :
              IF happened[i] = "ok"
              THEN /\ bRet.results[i].status = "success"
                   /\ bRet.results[i].output = OutputFile(bArg[2], bFiles[i])
              ELSE /\ bRet.results[i].status = "error"
                   /\ bRet.results[i].output = None

\* C2 witness: a call in which a file failed and a later file was converted.
C2_Witness ==
    /\ bPc = "done" /\ bOp \in {"process_files", "process_directory"}
    /\ "results" \in DOMAIN bRet
    /\ \E i, j \in 1..Len(happened) :
          /\ i < j
          /\ happened[i] \in {"missing", "read_raises", "convert_raises", "save_raises"}
          /\ happened[j] = "ok"
          /\ bRet.results[j].status = "success"

\* The entries of process_files so far that report a conversion to the output
\* path of entry i.
SuccessesTo(i) ==
    {k \in 1..Len(results) :
        results[k].status = "success" /\ results[k].output = results[i].output}

\* C25: the output path of process_files is made of the output directory and
\* the stem of the input file alone: two inputs of a call with the same stem
\* are both reported as converted to the same output path, and the document
\* at that path is the one of the later conversion.
C25_OutputPathFromStem ==
    (bOp = "process_files" /\ bPc \in {"loop", "done"}) =>
        \A i \in 1..Len(results) :
            results[i].status = "success" =>
                /\ results[i].input = bFiles[i]
                /\ results[i].output = <<bArg[2], bFiles[i][2], "docx">>
                /\ \A j \in 1..Len(results) :
                      (happened[j] = "ok" /\ bFiles[j][2] = bFiles[i][2]) =>
                          /\ results[j].status = "success"
                          /\ results[j].output = results[i].output
                /\ results[i].output \in DOMAIN docxOnDisk
                /\ \E k \in SuccessesTo(i) :
                      /\ \A h \in SuccessesTo(i) : h <= k
                      /\ docxOnDisk[results[i].output] = bFiles[k]

\* C25 witness: a process_files call converted two files of different
\* directories with the same stem; both entries name the same output path
\* and the document there is the one of the second file.
C25_Witness ==
    /\ bPc = "done" /\ bOp = "process_files" /\ Len(results) = 2
    /\ bFiles[1] # bFiles[2]
    /\ results[1].status = "success" /\ results[2].status = "success"
    /\ results[1].output = results[2].output
    /\ docxOnDisk[results[2].output] = bFiles[2]
    /\ "results" \in DOMAIN bRet /\ bRet.successful = 2

\* The current call is a finished process_directory whose input directory did not exist.
ProcessDirectoryOfMissingDir ==
    /\ bPc = "done" /\ bOp = "process_directory"
    /\ bArg[1] \notin fsAtCall[1]

DocsOfFirst(n) ==
    [q \in {OutputFile(bArg[2], bFiles[j]) : j \in 1..n} |->
        CHOOSE f \in {bFiles[j] : j \in 1..n} : OutputFile(bArg[2], f) = q]

\* C27: server.batch_convert_directory has no per-file isolation.  In a call
\* that got to its loop (the output directory exists): when the read or the
\* conversion of the k-th matched file fails, the call returns success False
\* with the message "Batch conversion failed" and no converted_files list, no
\* file after the k-th is tried, and the documents of the first k-1 files are
\* on disk; when no file fails it returns success True with count equal to
\* the number of matched files.
C27_NoPerFileIsolation ==
    (bOp = "server_batch_convert_directory" /\ bPc = "done" /\ bArg[2] \in dirsOnDisk) =>
        LET k == Len(happened)
        IN /\ k <= Len(bFiles)
           /\ \A j \in 1..(k - 1) : happened[j] = "ok"
           /\ IF k >= 1 /\ happened[k] # "ok"
              THEN /\ bRet.success = FALSE
                   /\ bRet.message = MsgBatchFailed
                   /\ "converted_files" \notin DOMAIN bRet
                   /\ docxOnDisk = DocsOfFirst(k - 1)
              ELSE /\ k = Len(bFiles)
                   /\ bRet.success = TRUE
                   /\ bRet.count = Len(bFiles)
                   /\ bRet.converted_files = [j \in 1..k |-> OutputFile(bArg[2], bFiles[j])]
                   /\ docxOnDisk = DocsOfFirst(k)

\* C27 witness: of two matched files the first was converted and the second
\* failed; the call returned the failure dictionary and the first document is
\* on disk.
C27_Witness ==
    /\ bOp = "server_batch_convert_directory" /\ bPc = "done"
    /\ Len(bFiles) = 2 /\ Len(happened) = 2
    /\ happened[1] = "ok" /\ happened[2] # "ok"
    /\ bRet.success = FALSE
    /\ OutputFile(bArg[2], bFiles[1]) \in DOMAIN docxOnDisk

(***************************************************************************)
(* PART 2: the convert_markdown_to_docx tool of the two servers.           *)
(* The conversion itself is a black box here: a document is known by the    *)
(* markdown it was made from.                                               *)
(***************************************************************************)
Markdowns == {"md1", "md2"}

\* output_path values of enhanced_server: omitted, empty, or a path.
EmptyPath == <<"">>
EnhancedOutputs == {None, EmptyPath, <<"work", "report.docx">>}
\* output_filename values of server.py (the default is "output.docx").
ServerOutputs == {<<"output.docx">>, <<"work", "report.docx">>}

\* What is remembered of a call once the next one starts: the tool, the
\* document it was given, the path it was asked for, and what it returned.
NoCall == [tool |-> "none", markdown_content |-> "", output_path |-> None, ret |-> NoReturn]
Finished(tool, args, ret) ==
    IF tool = "none" THEN NoCall
    ELSE [tool |-> tool, markdown_content |-> args.markdown_content,
          output_path |-> args.output_path, ret |-> ret]

\* Python truth of an optional path string.
Truthy(path) == path # None /\ path # EmptyPath

\* enhanced_server.py: Path(tempfile.gettempdir()) / "markdown_converter" / "converted_document.docx"
TempDocument == <<"tmp", "markdown_converter", "converted_document.docx">>

\* A variant that takes every given string, the empty one too, as the path.
SavePathOfAnyString(output_path) ==
    IF output_path # None THEN output_path ELSE TempDocument

\* enhanced_server.py: the path the document is saved to.
SavePath(output_path) ==
    IF Truthy(output_path) THEN output_path ELSE TempDocument

MsgConvertFailed == <<"Failed", "to", "convert", "markdown", "to", "Word", "document">>
MsgPandocFailed == <<"Conversion", "failed">>

\* A variant of EnhancedFailure that lets the exception leave the tool.
EnhancedFailureRaises(step) == Raised

\* enhanced_server.py: the dictionary of the except branch.
EnhancedFailure(step) ==
    [success |-> FALSE, error |-> StrE(step), message |-> MsgConvertFailed]

\* enhanced_server.py: the dictionary returned at the end of the try block
\* (file_size and document_stats left out).
EnhancedSuccess(save_path, template_name) ==
    [success |-> TRUE, output_path |-> save_path,
     template_used |-> IF template_name # NoName /\ template_name # "" THEN template_name
                       ELSE "default"]

\* server.py: the dictionary of the except branch.
ServerFailure(step) ==
    [success |-> FALSE, error |-> StrE(step), message |-> MsgPandocFailed]

\* server.py: the dictionary returned at the end of the try block.
ServerSuccess(output_path) ==
    [success |-> TRUE, output_file |-> output_path, converter |-> "pandoc"]

\* The disk after a document made from markdown was written to path.
Written(disk, path, markdown) ==
    [q \in DOMAIN disk \cup {path} |-> IF q = path THEN markdown ELSE disk[q]]

InitTools ==
    /\ converter = "None"
    /\ toolDisk = << >>
    /\ tTool = "none"
    /\ tArgs = << >>
    /\ tPc = "idle"
    /\ tDone = << >>
    /\ tRet = NoReturn
    /\ tPrev = NoCall

\* enhanced_server.convert_markdown_to_docx: entry and get_converter(), which
\* builds the global converter on first use (the constructor may raise).
EnhancedCall ==
    \E markdown_content \in Markdowns, output_path \in EnhancedOutputs,
       template_name \in {NoName, "", "simple"}, ok \in BOOLEAN :
        /\ tPc \in {"idle", "done"}
        /\ tTool' = "enhanced"
        /\ tPrev' = Finished(tTool, tArgs, tRet)
        /\ tArgs' = [markdown_content |-> markdown_content, output_path |-> output_path,
                     template_name |-> template_name]
        /\ IF converter = "created" \/ ok
           THEN /\ converter' = "created"
                /\ tDone' = <<"get_converter">>
                /\ tPc' = "convert"
                /\ tRet' = NoReturn
           ELSE /\ converter' = "None"
                /\ tDone' = << >>
                /\ tPc' = "done"
                /\ tRet' = EnhancedFailure("get_converter")
        /\ UNCHANGED toolDisk
    /\ UNCHANGED nonToolVars

\* conv.convert(...): the document is built, or the conversion raises.
EnhancedConvert ==
    \E ok \in BOOLEAN :
        /\ tTool = "enhanced" /\ tPc = "convert"
        /\ IF ok
           THEN /\ tDone' = Append(tDone, "convert")
                /\ tPc' = "save"
                /\ tRet' = NoReturn
           ELSE /\ tDone' = tDone
                /\ tPc' = "done"
                /\ tRet' = EnhancedFailure("convert")
        /\ UNCHANGED <<converter, toolDisk, tTool, tArgs, tPrev>>
    /\ UNCHANGED nonToolVars

\* The save path, the mkdir calls and doc.save.
EnhancedSave ==
    \E ok \in BOOLEAN :
        /\ tTool = "enhanced" /\ tPc = "save"
        /\ IF ok
           THEN /\ toolDisk' = Written(toolDisk, SavePath(tArgs.output_path),
                                       tArgs.markdown_content)
                /\ tDone' = Append(tDone, "save")
                /\ tPc' = "stats"
                /\ tRet' = NoReturn
           ELSE /\ toolDisk' = toolDisk
                /\ tDone' = tDone
                /\ tPc' = "done"
                /\ tRet' = EnhancedFailure("save")
        /\ UNCHANGED <<converter, tTool, tArgs, tPrev>>
    /\ UNCHANGED nonToolVars

\* The document statistics and save_path.stat(), still inside the try block,
\* and the return.
EnhancedStats ==
    \E ok \in BOOLEAN :
        /\ tTool = "enhanced" /\ tPc = "stats"
        /\ IF ok
           THEN /\ tDone' = Append(tDone, "stats")
                /\ tRet' = EnhancedSuccess(SavePath(tArgs.output_path), tArgs.template_name)
           ELSE /\ tDone' = tDone
                /\ tRet' = EnhancedFailure("stats")
        /\ tPc' = "done"
        /\ UNCHANGED <<converter, toolDisk, tTool, tArgs, tPrev>>
    /\ UNCHANGED nonToolVars

\* server.convert_markdown_to_docx: entry (the metadata dictionary is built).
ServerCall ==
    \E markdown_content \in Markdowns, output_filename \in ServerOutputs :
        /\ tPc \in {"idle", "done"}
        /\ tTool' = "server"
        /\ tPrev' = Finished(tTool, tArgs, tRet)
        /\ tArgs' = [markdown_content |-> markdown_content, output_path |-> output_filename]
        /\ tDone' = << >>
        /\ tPc' = "convert"
        /\ tRet' = NoReturn
        /\ UNCHANGED <<converter, toolDisk>>
    /\ UNCHANGED nonToolVars

\* converter.convert(...) of PandocConverter, which writes the output file
\* itself, and the return.
ServerConvert ==
    \E ok \in BOOLEAN :
        /\ tTool = "server" /\ tPc = "convert"
        /\ IF ok
           THEN /\ toolDisk' = Written(toolDisk, tArgs.output_path, tArgs.markdown_content)
                /\ tDone' = <<"convert", "save">>
                /\ tRet' = ServerSuccess(tArgs.output_path)
           ELSE /\ toolDisk' = toolDisk
                /\ tDone' = tDone
                /\ tRet' = ServerFailure("convert")
        /\ tPc' = "done"
        /\ UNCHANGED <<converter, tTool, tArgs, tPrev>>
    /\ UNCHANGED nonToolVars

NextTools ==
    \/ EnhancedCall
    \/ EnhancedConvert
    \/ EnhancedSave
    \/ EnhancedStats
    \/ ServerCall
    \/ ServerConvert

\* ---------------------------------------------------------- claims, part 2

\* The step names of the sequence done.
StepsOf(done) == {done[i] : i \in 1..Len(done)}

\* Every step of the tool's try block has completed.
AllStepsCompleted ==
    IF tTool = "enhanced"
    THEN StepsOf(tDone) = {"get_converter", "convert", "save", "stats"}
    ELSE StepsOf(tDone) = {"convert", "save"}

\* The path the finished call reports (output_path / output_file).
ReportedPath ==
    IF tTool = "enhanced" THEN tRet.output_path ELSE tRet.output_file

\* The finished call returned the failure dictionary.
ReturnedFailure ==
    /\ {"success", "error", "message"} \subseteq DOMAIN tRet
    /\ tRet.success = FALSE

\* The finished call returned the success dictionary, and the document made
\* from its markdown is at the reported path.
ReturnedSuccess ==
    /\ "success" \in DOMAIN tRet
    /\ tRet.success = TRUE
    /\ ReportedPath \in DOMAIN toolDisk
    /\ toolDisk[ReportedPath] = tArgs.markdown_content
    /\ tTool = "enhanced" =>
          ReportedPath = IF Truthy(tArgs.output_path) THEN tArgs.output_path ELSE TempDocument

\* C4 as stated: the tool never propagates an exception; when conversion and save
\* succeed it returns success True with the output path, and on any failure it
\* returns success False with an error text and a failure message.
C4_AsStated ==
    tPc = "done" =>
        /\ "raised" \notin DOMAIN tRet
        /\ ({"convert", "save"} \subseteq StepsOf(tDone)) => ReturnedSuccess
        /\ ~AllStepsCompleted => ReturnedFailure

\* C4 amended: the tool never propagates an exception; it returns success True with
\* the output path exactly when every step of its try block completed (conversion
\* and save, and in enhanced_server also the statistics and the stat of the saved
\* file); when any step raises it returns success False with an error text and a
\* failure message, also when the document is already on disk.
C4_ToolNeverRaises ==
    tPc = "done" =>
        /\ "raised" \notin DOMAIN tRet
        /\ AllStepsCompleted => ReturnedSuccess
        /\ ~AllStepsCompleted => ReturnedFailure

\* C4 witness: both servers' tools are exercised; here an enhanced call whose
\* statistics step raised after the document was saved returned the failure dictionary.
C4_Witness ==
    /\ tPc = "done" /\ tTool = "enhanced"
    /\ StepsOf(tDone) = {"get_converter", "convert", "save"}
    /\ TempDocument \in DOMAIN toolDisk
    /\ ReturnedFailure

\* An enhanced_server call made without output_path (omitted or empty).
WithoutOutputPath(tool, output_path) == tool = "enhanced" /\ ~Truthy(output_path)

\* C26: an enhanced_server call without output_path saves to the one fixed
\* path converted_document.docx of the markdown_converter directory under the
\* temp directory: once it has saved, the document at that path is the one made
\* from its own markdown, whatever an earlier call left there; the output_path
\* it returns is that path, so it is the same as the one the call before it
\* returned when that call was made without output_path too.
C26_FixedTempPath ==
    (WithoutOutputPath(tTool, tArgs.output_path) /\ "save" \in StepsOf(tDone)) =>
        /\ TempDocument \in DOMAIN toolDisk
        /\ toolDisk[TempDocument] = tArgs.markdown_content
        /\ (tPc = "done" /\ "success" \in DOMAIN tRet /\ tRet.success) =>
              /\ tRet.output_path = TempDocument
              /\ (/\ WithoutOutputPath(tPrev.tool, tPrev.output_path)
                  /\ "success" \in DOMAIN tPrev.ret /\ tPrev.ret.success) =>
                     tPrev.ret.output_path = tRet.output_path

\* C26 witness: two calls without output_path followed each other with
\* different markdown, both returned success, and the document at the fixed
\* path is the one of the later call.
C26_Witness ==
    /\ tPc = "done" /\ WithoutOutputPath(tTool, tArgs.output_path)
    /\ "success" \in DOMAIN tRet /\ tRet.success
    /\ WithoutOutputPath(tPrev.tool, tPrev.output_path)
    /\ "success" \in DOMAIN tPrev.ret /\ tPrev.ret.success
    /\ tPrev.markdown_content # tArgs.markdown_content
    /\ tPrev.output_path # tArgs.output_path
    /\ toolDisk[TempDocument] = tArgs.markdown_content

(***************************************************************************)
(* PART 3: ImageHandler.process_images.                                    *)
(* Text is a sequence of one-character strings.                            *)
(***************************************************************************)

\* Whether the text w stands in s at position i.
IsAt(s, i, w) ==
    /\ i >= 1
    /\ i + Len(w) - 1 <= Len(s)
    /\ \A k \in 1..Len(w) : s[i + k - 1] = w[k]

\* Python's w in s.
Contains(s, w) == \E i \in 1..(Len(s) - Len(w) + 1) : IsAt(s, i, w)

\* The first position >= from at which character c stands in s, 0 when there is none.
FirstIndex(s, from, c) ==
    LET hits == {j \in from..Len(s) : s[j] = c}
    IN IF hits = {} THEN 0 ELSE CHOOSE j \in hits : \A h \in hits : j <= h

\* The first position >= from at which the text w stands in s, 0 when there is none.
FirstAt(s, from, w) ==
    LET hits == {j \in from..Len(s) : IsAt(s, j, w)}
    IN IF hits = {} THEN 0 ELSE CHOOSE j \in hits : \A h \in hits : j <= h

RECURSIVE ReplaceFrom(_, _, _, _)
\* str.replace on the part of s from position i on: every occurrence of old
\* (not empty), left to right and without overlap, becomes new.
ReplaceFrom(s, i, old, new) ==
    LET j == FirstAt(s, i, old)
    IN IF j = 0 THEN SubSeq(s, i, Len(s))
       ELSE SubSeq(s, i, j - 1) \o new \o ReplaceFrom(s, j + Len(old), old, new)

\* s.replace(old, new)
Replace(s, old, new) == ReplaceFrom(s, 1, old, new)

\* The result of a pattern that does not match at a position.
NoMatch == [end |-> 0]

\* The match of r'!\[([^\]]*)\]\(([^)]+)\)' that starts at position i of s:
\* "![", the alt text up to the first "]", "(", a non-empty path up to the first ")".
ImageMatchAt(s, i) ==
    IF ~IsAt(s, i, <<"!", "[">>) THEN NoMatch
    ELSE LET j == FirstIndex(s, i + 2, "]")
         IN IF j = 0 \/ ~IsAt(s, j + 1, <<"(">>) THEN NoMatch
            ELSE LET k == FirstIndex(s, j + 2, ")")
                 IN IF k = 0 \/ k = j + 2 THEN NoMatch
                    ELSE [end |-> k,
                          alt_text |-> SubSeq(s, i + 2, j - 1),
                          image_path |-> SubSeq(s, j + 2, k - 1)]

RECURSIVE FindImagesFrom(_, _)
\* re.findall(image_pattern, content) from position i on: the matches left to
\* right, each search resuming after the previous match.
FindImagesFrom(s, i) ==
    LET starts == {j \in i..Len(s) : ImageMatchAt(s, j).end # 0}
    IN IF starts = {} THEN << >>
       ELSE LET m == ImageMatchAt(s, CHOOSE j \in starts : \A h \in starts : j <= h)
            IN <<[alt_text |-> m.alt_text, image_path |-> m.image_path]>>
               \o FindImagesFrom(s, m.end + 1)

\* re.findall(image_pattern, content)
FindImages(content) == FindImagesFrom(content, 1)

\* f'![{alt_text}]({image_path})'
ImageMarkdown(m) == <<"!", "[">> \o m.alt_text \o <<"]", "(">> \o m.image_path \o <<")">>

\* f'[Image: {alt_text}]'
ImagePlaceholder(alt_text) ==
    <<"[", "I", "m", "a", "g", "e", ":", " ">> \o alt_text \o <<"]">>

\* f'[Image Error: {alt_text}]'
ImageErrorPlaceholder(alt_text) ==
    <<"[", "I", "m", "a", "g", "e", " ", "E", "r", "r", "o", "r", ":", " ">>
        \o alt_text \o <<"]">>

\* image_path.startswith(('http://', 'https://'))
IsRemote(image_path) ==
    \/ IsAt(image_path, 1, <<"h", "t", "t", "p", ":", "/", "/">>)
    \/ IsAt(image_path, 1, <<"h", "t", "t", "p", "s", ":", "/", "/">>)

\* What _add_image_to_doc can do with one reference: embed the picture
\* ("added"), find no file or get no download ("absent"), raise in add_picture
\* ("raises"); for a downloaded image, embed it and raise in os.unlink; for a
\* local image that does not exist, raise in full_path.exists() (a name the
\* file system refuses, such as one that is too long, makes stat raise an
\* OSError that Path.exists does not swallow).
ImageOutcomes(image_path) ==
    {"added", "absent", "raises"}
        \cup (IF IsRemote(image_path) THEN {"added_unlink_raises"}
              ELSE {"absent_exists_raises"})

\* A variant of ImageStepText that reports an image that is not there as an error.
ImageStepTextAbsentIsError(text, m, outcome) ==
    IF outcome = "added"
    THEN Replace(text, ImageMarkdown(m), ImagePlaceholder(m.alt_text))
    ELSE Replace(text, ImageMarkdown(m), ImageErrorPlaceholder(m.alt_text))

\* The text after the loop body of process_images handled match m.
ImageStepText(text, m, outcome) ==
    IF outcome \in {"added", "absent"}
    THEN Replace(text, ImageMarkdown(m), ImagePlaceholder(m.alt_text))
    ELSE Replace(text, ImageMarkdown(m), ImageErrorPlaceholder(m.alt_text))

\* The document after the loop body of process_images handled match m.
ImageStepDoc(doc, m, outcome) ==
    IF outcome \in {"added", "added_unlink_raises"}
    THEN Append(doc, <<"picture", m.image_path>>)
    ELSE doc

\* The pieces the contents of the model are put together from: plain text,
\* a remote and a local reference, a reference whose alt text is "Image: ",
\* and a reference that stands between "!" and "(p)".
ImagePieces ==
    { <<"x">>,
      <<"!", "[", "a", "]", "(", "h", "t", "t", "p", ":", "/", "/", "h", ")">>,
      <<"!", "[", "]", "(", "p", ")">>,
      <<"!", "[", "I", "m", "a", "g", "e", ":", " ", "]", "(", "p", ")">>,
      <<"!", "!", "[", "]", "(", "p", ")", "(", "p", ")">> }

RECURSIVE Concat(_)
\* The concatenation of a sequence of texts.
Concat(ps) == IF ps = << >> THEN << >> ELSE Head(ps) \o Concat(Tail(ps))

ImageContents == {Concat(ps) : ps \in SeqsUpTo(ImagePieces, MaxPieces)}

InitImages ==
    /\ iContent \in ImageContents
    /\ image_matches = << >>
    /\ iIdx = 1
    /\ iProcessed = << >>
    /\ iDoc = << >>
    /\ iHappened = << >>
    /\ iPc = "idle"

\* process_images up to its loop: findall and processed_content = content.
CallProcessImages ==
    /\ iPc = "idle"
    /\ image_matches' = FindImages(iContent)
    /\ iProcessed' = iContent
    /\ iIdx' = 1
    /\ iPc' = "loop"
    /\ UNCHANGED <<iContent, iDoc, iHappened>>
    /\ UNCHANGED nonImageVars

\* One iteration of the loop of process_images.
ProcessImagesStep ==
    /\ iPc = "loop" /\ iIdx <= Len(image_matches)
    /\ \E outcome \in ImageOutcomes(image_matches[iIdx].image_path) :
          /\ iDoc' = ImageStepDoc(iDoc, image_matches[iIdx], outcome)
          /\ iProcessed' = ImageStepText(iProcessed, image_matches[iIdx], outcome)
          /\ iHappened' = Append(iHappened, outcome)
    /\ iIdx' = iIdx + 1
    /\ UNCHANGED <<iContent, image_matches, iPc>>
    /\ UNCHANGED nonImageVars

\* return processed_content
ProcessImagesReturn ==
    /\ iPc = "loop" /\ iIdx > Len(image_matches)
    /\ iPc' = "done"
    /\ UNCHANGED <<iContent, image_matches, iIdx, iProcessed, iDoc, iHappened>>
    /\ UNCHANGED nonImageVars

NextImages ==
    \/ CallProcessImages
    \/ ProcessImagesStep
    \/ ProcessImagesReturn

\* ---------------------------------------------------------- claims, part 3

\* C5: for every content, the text process_images returns contains none of the
\* image references ![alt](path) found in the input and contains a placeholder
\* "[Image: alt]" or "[Image Error: alt]" for each of them.
C5_NoImageReferenceLeft ==
    iPc = "done" =>
        \A n \in 1..Len(image_matches) :
            /\ ~Contains(iProcessed, ImageMarkdown(image_matches[n]))
            /\ \/ Contains(iProcessed, ImagePlaceholder(image_matches[n].alt_text))
               \/ Contains(iProcessed, ImageErrorPlaceholder(image_matches[n].alt_text))

\* An iteration of the loop of process_images is being made.
ImageIteration == iPc = "loop" /\ iIdx' = iIdx + 1

\* The iteration wrote the error placeholder of its reference into the text.
WroteImageError ==
    /\ iProcessed' # iProcessed
    /\ iProcessed' = Replace(iProcessed, ImageMarkdown(image_matches[iIdx]),
                             ImageErrorPlaceholder(image_matches[iIdx].alt_text))

\* The outcome of the iteration being made.
IterationOutcome == iHappened'[Len(iHappened')]

\* After the iteration the document is as before, the loop goes on and the
\* reference is replaced by "[Image: alt]".
SilentSuccess ==
    /\ iDoc' = iDoc
    /\ iPc' = "loop"
    /\ iProcessed' = Replace(iProcessed, ImageMarkdown(image_matches[iIdx]),
                             ImagePlaceholder(image_matches[iIdx].alt_text))

\* C28 as stated: a missing image is a silent success.  In every iteration for
\* a reference whose local file does not exist or whose download failed, the
\* document stays as it is, nothing is raised and the reference is replaced by
\* "[Image: alt]"; an iteration writes "[Image Error: alt]" only when
\* embedding an obtained file raised.
C28_AsStated ==
    [][ImageIteration =>
         /\ IterationOutcome \in {"absent", "absent_exists_raises"} => SilentSuccess
         /\ WroteImageError => IterationOutcome = "raises"]_vars

\* C28 amended: in every iteration for a reference whose local file the
\* existence check reports as missing, or whose download failed, the document
\* stays as it is, nothing is raised and the reference is replaced by
\* "[Image: alt]"; an iteration writes "[Image Error: alt]" only when
\* _add_image_to_doc raised: in the existence check of a local path, in
\* embedding an obtained file, or in removing the downloaded file after it
\* was embedded.
C28_MissingImageIsSilent ==
    [][ImageIteration =>
         /\ IterationOutcome = "absent" => SilentSuccess
         /\ WroteImageError =>
               IterationOutcome \in {"raises", "added_unlink_raises", "absent_exists_raises"}]_vars

\* C28 witness: the call has returned; a remote image that could not be
\* downloaded and a local image that does not exist left the document empty
\* and the text with "[Image: alt]" for both.
C28_Witness ==
    /\ iPc = "done"
    /\ iHappened = <<"absent", "absent">>
    /\ \E i, j \in 1..2 : IsRemote(image_matches[i].image_path)
                          /\ ~IsRemote(image_matches[j].image_path)
    /\ iDoc = << >>
    /\ \A n \in 1..2 : Contains(iProcessed, ImagePlaceholder(image_matches[n].alt_text))
    /\ ~Contains(iProcessed, <<"E", "r", "r", "o", "r">>)

(***************************************************************************)
(* PART 4: MermaidHandler.process_mermaid.  In the comments (fence) stands  *)
(* for the three backticks that open and close a fenced block.             *)
(***************************************************************************)

\* The backtick character: a string of this notation cannot hold it, so it is
\* written as a symbol of its own, one element of a text like any character.
BackTick == "<backtick>"

\* "(fence)mermaid\n", the text the pattern starts with.
MermaidOpen ==
    <<BackTick, BackTick, BackTick, "m", "e", "r", "m", "a", "i", "d", "\n">>

\* "\n(fence)", the text the pattern ends with.
MermaidClose == <<"\n", BackTick, BackTick, BackTick>>

\* "(fence)mermaid"
MermaidFence == <<BackTick, BackTick, BackTick, "m", "e", "r", "m", "a", "i", "d">>

\* The match of mermaid_pattern (with DOTALL) that starts at position i of s:
\* the opening text, then the shortest text that is followed by "\n(fence)".
MermaidMatchAt(s, i) ==
    IF ~IsAt(s, i, MermaidOpen) THEN NoMatch
    ELSE LET j == FirstAt(s, i + Len(MermaidOpen), MermaidClose)
         IN IF j = 0 THEN NoMatch
            ELSE [end |-> j + Len(MermaidClose) - 1,
                  mermaid_code |-> SubSeq(s, i + Len(MermaidOpen), j - 1)]

RECURSIVE FindMermaidFrom(_, _)
\* re.findall(mermaid_pattern, content, re.DOTALL) from position i on.
FindMermaidFrom(s, i) ==
    LET starts == {j \in i..Len(s) : MermaidMatchAt(s, j).end # 0}
    IN IF starts = {} THEN << >>
       ELSE LET m == MermaidMatchAt(s, CHOOSE j \in starts : \A h \in starts : j <= h)
            IN <<m.mermaid_code>> \o FindMermaidFrom(s, m.end + 1)

\* re.findall(mermaid_pattern, content, re.DOTALL)
FindMermaid(content) == FindMermaidFrom(content, 1)

\* f'(fence)mermaid\n{mermaid_code}\n(fence)'
MermaidBlock(mermaid_code) == MermaidOpen \o mermaid_code \o MermaidClose

\* "[Mermaid Diagram", the text every placeholder starts with.
MermaidPlaceholderStart ==
    <<"[", "M", "e", "r", "m", "a", "i", "d", " ", "D", "i", "a", "g", "r", "a", "m">>

\* '[Mermaid Diagram - CLI not available]'
PlaceholderNoCli ==
    <<"[", "M", "e", "r", "m", "a", "i", "d", " ", "D", "i", "a", "g", "r", "a", "m",
      " ", "-", " ", "C", "L", "I", " ", "n", "o", "t", " ", "a", "v", "a", "i", "l",
      "a", "b", "l", "e", "]">>

\* '[Mermaid Diagram]'
PlaceholderDiagram ==
    <<"[", "M", "e", "r", "m", "a", "i", "d", " ", "D", "i", "a", "g", "r", "a", "m",
      "]">>

\* '[Mermaid Diagram - Render Error]'
PlaceholderRenderError ==
    <<"[", "M", "e", "r", "m", "a", "i", "d", " ", "D", "i", "a", "g", "r", "a", "m",
      " ", "-", " ", "R", "e", "n", "d", "e", "r", " ", "E", "r", "r", "o", "r", "]">>

\* What the try block of the rendering loop can do with one block: render and
\* embed the picture ("rendered"), get no image from _render_mermaid
\* ("no_image"), raise in add_picture ("raises"), or embed the picture and
\* raise in os.unlink.  Without the CLI nothing is attempted ("no_cli").
MermaidOutcomes(available) ==
    IF available THEN {"rendered", "no_image", "raises", "added_unlink_raises"}
    ELSE {"no_cli"}

\* A variant of MermaidStepText that leaves the block in place when the CLI is missing.
MermaidStepTextKeepsBlock(text, mermaid_code, outcome) ==
    IF outcome = "no_cli" THEN text
    ELSE IF outcome \in {"rendered", "no_image"}
    THEN Replace(text, MermaidBlock(mermaid_code), PlaceholderDiagram)
    ELSE Replace(text, MermaidBlock(mermaid_code), PlaceholderRenderError)

\* The text after one iteration of either loop of process_mermaid.
MermaidStepText(text, mermaid_code, outcome) ==
    IF outcome = "no_cli"
    THEN Replace(text, MermaidBlock(mermaid_code), PlaceholderNoCli)
    ELSE IF outcome \in {"rendered", "no_image"}
    THEN Replace(text, MermaidBlock(mermaid_code), PlaceholderDiagram)
    ELSE Replace(text, MermaidBlock(mermaid_code), PlaceholderRenderError)

\* The document after one iteration of either loop of process_mermaid.
MermaidStepDoc(doc, n, outcome) ==
    IF outcome \in {"rendered", "added_unlink_raises"}
    THEN Append(doc, <<"picture", <<"diagram", n - 1>> >>)
    ELSE doc

\* The pieces the contents of the model are put together from: plain text, a
\* line break, a block with a one-line body, a block with no body.
MermaidPieces ==
    { <<"x">>,
      <<"\n">>,
      <<BackTick, BackTick, BackTick, "m", "e", "r", "m", "a", "i", "d", "\n", "A", "\n", BackTick, BackTick,
        BackTick>>,
      <<BackTick, BackTick, BackTick, "m", "e", "r", "m", "a", "i", "d", "\n", BackTick, BackTick, BackTick>> }

MermaidContents == {Concat(ps) : ps \in SeqsUpTo(MermaidPieces, MaxPieces)}

InitMermaid ==
    /\ mContent \in MermaidContents
    /\ mermaid_available \in BOOLEAN
    /\ mermaid_matches = << >>
    /\ mIdx = 1
    /\ mProcessed = << >>
    /\ mDoc = << >>
    /\ mHappened = << >>
    /\ mPc = "idle"

\* process_mermaid up to its loops: findall, and the early return when nothing matched.
CallProcessMermaid ==
    /\ mPc = "idle"
    /\ mermaid_matches' = FindMermaid(mContent)
    /\ mProcessed' = mContent
    /\ mIdx' = 1
    /\ mPc' = IF FindMermaid(mContent) = << >> THEN "done" ELSE "loop"
    /\ UNCHANGED <<mContent, mermaid_available, mDoc, mHappened>>
    /\ UNCHANGED nonMermaidVars

\* One iteration of the placeholder loop (no CLI) or of the rendering loop.
ProcessMermaidStep ==
    /\ mPc = "loop" /\ mIdx <= Len(mermaid_matches)
    /\ \E outcome \in MermaidOutcomes(mermaid_available) :
          /\ mDoc' = MermaidStepDoc(mDoc, mIdx, outcome)
          /\ mProcessed' = MermaidStepText(mProcessed, mermaid_matches[mIdx], outcome)
          /\ mHappened' = Append(mHappened, outcome)
    /\ mIdx' = mIdx + 1
    /\ UNCHANGED <<mContent, mermaid_available, mermaid_matches, mPc>>
    /\ UNCHANGED nonMermaidVars

\* return processed_content
ProcessMermaidReturn ==
    /\ mPc = "loop" /\ mIdx > Len(mermaid_matches)
    /\ mPc' = "done"
    /\ UNCHANGED <<mContent, mermaid_available, mermaid_matches, mIdx, mProcessed,
                   mDoc, mHappened>>
    /\ UNCHANGED nonMermaidVars

NextMermaid ==
    \/ CallProcessMermaid
    \/ ProcessMermaidStep
    \/ ProcessMermaidReturn

\* ---------------------------------------------------------- claims, part 4

\* The content holds a fenced block opened by (fence)mermaid: the fence, and further
\* on a line that starts with (fence).
HasMermaidFencedBlock(content) ==
    \E i \in 1..Len(content) :
        /\ IsAt(content, i, MermaidFence)
        /\ FirstAt(content, i + Len(MermaidFence), MermaidClose) # 0

\* C6: for every content that holds a fenced block opened by (fence)mermaid, the text
\* process_mermaid returns holds no "(fence)mermaid" and holds a placeholder starting
\* with "[Mermaid Diagram", whether the Mermaid CLI is available or not.
C6_MermaidBlocksReplaced ==
    (mPc = "done" /\ HasMermaidFencedBlock(mContent)) =>
        /\ ~Contains(mProcessed, MermaidFence)
        /\ Contains(mProcessed, MermaidPlaceholderStart)

(***************************************************************************)
(* PART 5: TemplateManager and the list_available_templates tool.          *)
(* Paths and names are texts; a file of the template store is a record     *)
(* [dir, name, dangling], dangling for a symbolic link whose target is     *)
(* missing.                                                                *)
(***************************************************************************)

\* Python's None where a text (a str) is expected.
NoText == <<"<None>">>

\* Python truth of an optional str.
TruthyStr(s) == s # NoText /\ s # << >>

\* ".dotx"
DotX == <<".", "d", "o", "t", "x">>

\* self.builtin_dir, the external directories that exist, and one that does not.
BuiltinDir == <<"t", "e", "m", "p", "l", "a", "t", "e", "s">>
ExternalDirs == {<<"e", "1">>, <<"e", "2">>}
MissingDir == <<"g", "o", "n", "e">>

\* The file names of the model: a template, a file whose whole name is ".dotx",
\* and a Word document that is not a template.
TemplateFileNames == {<<"a", ".", "d", "o", "t", "x">>, DotX, <<"a", ".", "d", "o", "c", "x">>}

\* Every file the template store of the model can hold.
TemplateFiles ==
    [dir : {BuiltinDir} \cup ExternalDirs, name : TemplateFileNames, dangling : BOOLEAN]

\* The elements of a sequence.
Range(s) == {s[i] : i \in 1..Len(s)}

\* The template stores of at most n files (one file per directory and name).
Stores(n) ==
    {fs \in {Range(s) : s \in SeqsUpTo(TemplateFiles, n)} :
        \A f, g \in fs : (f.dir = g.dir /\ f.name = g.name) => f = g}

\* The template_dirs lists of the model: directories in any order, none twice.
DirLists ==
    {ds \in SeqsUpTo(ExternalDirs \cup {MissingDir}, MaxDirs) :
        \A i, j \in 1..Len(ds) : i # j => ds[i] # ds[j]}

\* str(directory / name)
PathStr(dir, name) == dir \o <<"/">> \o name

\* The last position of character c in s, 0 when there is none.
LastIndex(s, c) ==
    LET hits == {j \in 1..Len(s) : s[j] = c}
    IN IF hits = {} THEN 0 ELSE CHOOSE j \in hits : \A h \in hits : h <= j

\* PurePath.name: the final component of a path.
PathName(path) == SubSeq(path, LastIndex(path, "/") + 1, Len(path))

\* PurePath.suffix: the part of the name from its last dot on, unless that dot
\* is the first or the last character of the name.
Suffix(path) ==
    LET name == PathName(path)
        i == LastIndex(name, ".")
    IN IF 1 < i /\ i < Len(name) THEN SubSeq(name, i, Len(name)) ELSE << >>

\* PurePath.stem: the name without its suffix.
PathStem(path) ==
    LET name == PathName(path)
        i == LastIndex(name, ".")
    IN IF 1 < i /\ i < Len(name) THEN SubSeq(name, 1, i - 1) ELSE name

\* str.endswith
EndsWith(s, w) == Len(w) <= Len(s) /\ IsAt(s, Len(s) - Len(w) + 1, w)

\* Path.exists(): a directory that exists, or a file that is not a dangling link.
Exists(path) ==
    \/ path \in {BuiltinDir} \cup ExternalDirs
    \/ \E f \in tmFiles : ~f.dangling /\ PathStr(f.dir, f.name) = path

\* directory.glob("*.dotx"): the entries whose name ends with ".dotx", dangling
\* links included, in no particular order.
GlobDotx(dir) == {f \in tmFiles : f.dir = dir /\ EndsWith(f.name, DotX)}

\* The dictionary list_templates appends for one file.
TemplateEntry(f, type) ==
    [name |-> PathStem(PathStr(f.dir, f.name)), path |-> PathStr(f.dir, f.name),
     type |-> type]

\* The entries of one directory, in one of the orders glob can list them.
DirEntries(dir, type) ==
    {[i \in 1..Len(order) |-> TemplateEntry(order[i], type)] :
        order \in Listings(GlobDotx(dir))}

RECURSIVE ExternalEntries(_)
\* The loop of list_templates over self.template_dirs: a directory that does
\* not exist is skipped.
ExternalEntries(dirs) ==
    IF dirs = << >> THEN {<< >>}
    ELSE LET first == IF Head(dirs) \in ExternalDirs
                      THEN DirEntries(Head(dirs), "external")
                      ELSE {<< >>}
         IN {a \o b : a \in first, b \in ExternalEntries(Tail(dirs))}

\* TemplateManager.list_templates of a manager built with template_dirs = dirs:
\* the lists it can return.
ListTemplates(dirs) ==
    {b \o e : b \in DirEntries(BuiltinDir, "builtin"), e \in ExternalEntries(dirs)}

\* The loop of get_template_path over the list list_templates returned.
GetTemplatePath(ts, template_name) ==
    LET hits == {i \in 1..Len(ts) : ts[i].name = template_name}
    IN IF hits = {} THEN NoText
       ELSE ts[CHOOSE i \in hits : \A h \in hits : i <= h].path

\* TemplateManager.validate_template (Path(None) raises, which gives False).
ValidateTemplate(path) ==
    IF path = NoText THEN FALSE
    ELSE Exists(path) /\ Suffix(path) = DotX

\* The names get_template_path is asked for.
TemplateNames == {<<"a">>, DotX, <<"z", "z">>, << >>}

\* The paths validate_template is asked about.
TemplatePaths ==
    {PathStr(f.dir, f.name) : f \in TemplateFiles} \cup {BuiltinDir, << >>}

\* The template manager with no call made.
NoTemplateCall ==
    tmOp = "none" /\ tmArg = NoText /\ templates = << >> /\ tmRet = NoReturn

InitTemplates ==
    /\ tmFiles \in Stores(MaxTemplates)
    /\ template_dirs \in DirLists
    /\ NoTemplateCall

\* TemplateManager.list_templates
CallListTemplates ==
    /\ tmOp = "none"
    /\ \E ts \in ListTemplates(template_dirs) :
          /\ templates' = ts
          /\ tmRet' = [value |-> ts]
    /\ tmOp' = "list_templates"
    /\ UNCHANGED <<tmFiles, template_dirs, tmArg>>
    /\ UNCHANGED nonTemplateVars

\* TemplateManager.get_template_path
CallGetTemplatePath ==
    /\ tmOp = "none"
    /\ \E template_name \in TemplateNames, ts \in ListTemplates(template_dirs) :
          /\ tmArg' = template_name
          /\ templates' = ts
          /\ tmRet' = [value |-> GetTemplatePath(ts, template_name)]
    /\ tmOp' = "get_template_path"
    /\ UNCHANGED <<tmFiles, template_dirs>>
    /\ UNCHANGED nonTemplateVars

\* TemplateManager.validate_template
CallValidateTemplate ==
    /\ tmOp = "none"
    /\ \E path \in TemplatePaths :
          /\ tmArg' = path
          /\ tmRet' = [value |-> ValidateTemplate(path)]
    /\ tmOp' = "validate_template"
    /\ UNCHANGED <<tmFiles, template_dirs, templates>>
    /\ UNCHANGED nonTemplateVars

\* Whether templates.items() can be called: list_templates returns a list, and
\* a list has no attribute items.
HasItems == FALSE

\* "Failed to list templates"
MsgListFailed == <<"Failed", "to", "list", "templates">>

\* The dictionary list_available_templates builds in its try block from the
\* list ts, were the loop over templates.items() to run.
TemplatesListed(ts) ==
    [success |-> TRUE,
     templates |-> {[name |-> ts[i].name, path |-> ts[i].path,
                     exists |-> Exists(ts[i].path),
                     valid |-> Exists(ts[i].path) /\ ValidateTemplate(ts[i].path)] :
                    i \in 1..Len(ts)},
     template_count |-> Len(ts)]

\* The dictionary of the except branch of list_available_templates.
TemplatesFailed ==
    [success |-> FALSE, error |-> <<"AttributeError">>, templates |-> {},
     message |-> MsgListFailed]

\* enhanced_server.list_available_templates; its manager is TemplateManager(),
\* which has no external directories.
ListAvailableTemplates ==
    /\ tmOp = "none"
    /\ \E ts \in ListTemplates(<< >>) :
          /\ templates' = ts
          /\ tmRet' = [value |-> IF HasItems THEN TemplatesListed(ts) ELSE TemplatesFailed]
    /\ tmOp' = "list_available_templates"
    /\ UNCHANGED <<tmFiles, template_dirs, tmArg>>
    /\ UNCHANGED nonTemplateVars

NextTemplates ==
    \/ CallListTemplates
    \/ CallGetTemplatePath
    \/ CallValidateTemplate
    \/ ListAvailableTemplates

\* ---------------------------------------------------------- claims, part 5

\* The files a manager with directories dirs can list under name: the built-in
\* directory first, then the directories of dirs that exist, in their order.
NamedIn(dir, name) ==
    {f \in tmFiles : f.dir = dir /\ EndsWith(f.name, DotX)
                     /\ PathStem(PathStr(f.dir, f.name)) = name}

\* The path the claim expects get_template_path to return for name.
FirstNamed(dirs, name) ==
    IF NamedIn(BuiltinDir, name) # {}
    THEN LET f == CHOOSE f \in NamedIn(BuiltinDir, name) : TRUE
         IN PathStr(f.dir, f.name)
    ELSE LET has == {i \in 1..Len(dirs) :
                        dirs[i] \in ExternalDirs /\ NamedIn(dirs[i], name) # {}}
         IN IF has = {} THEN NoText
            ELSE LET i == CHOOSE i \in has : \A h \in has : i <= h
                     f == CHOOSE f \in NamedIn(dirs[i], name) : TRUE
                 IN PathStr(f.dir, f.name)

\* C9: get_template_path(name) returns the path of the first entry of
\* list_templates named name (built-in before external directories, in
\* configured order), None when there is none; every path it returns ends with
\* ".dotx" and is accepted by validate_template, which holds exactly when the
\* file exists and its suffix is ".dotx".
C9_GetTemplatePathContract ==
    /\ tmOp = "get_template_path" =>
          /\ tmRet.value = FirstNamed(template_dirs, tmArg)
          /\ tmRet.value # NoText =>
                EndsWith(tmRet.value, DotX) /\ ValidateTemplate(tmRet.value)
    /\ tmOp = "validate_template" =>
          (tmRet.value <=> (Exists(tmArg) /\ Suffix(tmArg) = DotX))

\* C9, the part about the order: the returned path is that of the first entry
\* with the name, None when there is none, and it ends with ".dotx".
C9_FirstEntryByName ==
    tmOp = "get_template_path" =>
        /\ tmRet.value = FirstNamed(template_dirs, tmArg)
        /\ tmRet.value # NoText => EndsWith(tmRet.value, DotX)

\* C10: list_available_templates returns success True, one entry in "templates"
\* per available template and template_count equal to the number of templates
\* list_templates found.
C10_TemplatesListed ==
    tmOp = "list_available_templates" =>
        /\ tmRet.value.success
        /\ tmRet.value.template_count = Len(templates)
        /\ Cardinality(tmRet.value.templates) = Len(templates)

(***************************************************************************)
(* PART 6: MarkdownConverter.convert and SimpleImprovedConverter.convert.  *)
(* The body of the document is the sequence of the elements appended to    *)
(* it: <<"template", path>> for what a template brings, <<"picture", ..>>  *)
(* for an embedded picture, <<"text", kind, source>> for an element the    *)
(* main pass makes.                                                        *)
(***************************************************************************)
ConverterClasses == {"MarkdownConverter", "SimpleImprovedConverter"}

\* The origin of a document made by Document() without a path.
Blank == <<"<blank>">>

\* metadata: None, an empty dictionary, a dictionary with a title.
Metadatas ==
    {[given |-> FALSE, items |-> {}],
     [given |-> TRUE, items |-> {}],
     [given |-> TRUE, items |-> {<<"title", "T">>}]}

\* if metadata:
MetadataTruthy(metadata) == metadata.given /\ metadata.items # {}

\* The keys _add_metadata copies to the core properties.
CorePropertyKeys == {"title", "author", "subject", "keywords", "comments"}

\* _add_metadata: the core properties after the copy.
AddMetadata(props, metadata) ==
    LET new == {p \in metadata.items : p[1] \in CorePropertyKeys}
    IN {p \in props : \A q \in new : q[1] # p[1]} \cup new

\* A variant of ResolveTemplatePath that falls back to the constructor's path
\* when the name does not resolve.
ResolveTemplatePathFallsBack(template_name, named, self_path) ==
    IF TruthyStr(template_name) /\ named # NoText THEN named
    ELSE IF TruthyStr(self_path) THEN self_path
    ELSE NoText

\* The template path convert settles on: named is what get_template_path
\* returns for template_name, self_path the constructor's template_path.
ResolveTemplatePath(template_name, named, self_path) ==
    IF TruthyStr(template_name) THEN named
    ELSE IF TruthyStr(self_path) THEN self_path
    ELSE NoText

\* The match of the strikethrough pattern (two tildes, one or more characters
\* other than a tilde, two tildes) that starts at position i of s.
StrikeMatchAt(s, i) ==
    IF ~IsAt(s, i, <<"~", "~">>) THEN NoMatch
    ELSE LET j == FirstIndex(s, i + 2, "~")
         IN IF j > i + 2 /\ IsAt(s, j, <<"~", "~">>) THEN [end |-> j + 1] ELSE NoMatch

\* What the replacement template of the strikethrough substitution expands
\* to: its doubled backslash is a literal backslash, so the text of the span
\* is not copied.
DelReplacement == <<"<", "d", "e", "l", ">", "\\", "1", "<", "/", "d", "e", "l", ">">>

RECURSIVE StrikeSubFrom(_, _)
\* re.sub of the strikethrough pattern on the part of s from position i on.
StrikeSubFrom(s, i) ==
    LET starts == {j \in i..Len(s) : StrikeMatchAt(s, j).end # 0}
    IN IF starts = {} THEN SubSeq(s, i, Len(s))
       ELSE LET j == CHOOSE j \in starts : \A h \in starts : j <= h
            IN SubSeq(s, i, j - 1) \o DelReplacement
               \o StrikeSubFrom(s, StrikeMatchAt(s, j).end + 1)

\* The characters \s matches.
WhiteSpace == {" ", "\n", "\t", "\r"}

\* Where the match of the front-matter pattern ends, 0 when there is none.
\* The pattern (three dashes, white space, a line break, any text, a line
\* break, three dashes, white space, a line break) can only match at the start
\* of the text: the substitution has no MULTILINE flag.  The first white space
\* is as long as a match allows, the text between as short, the last white
\* space as long.
FrontMatterEnd(s) ==
    LET Ends(b) == {e \in (b + 4)..Len(s) :
                       s[e] = "\n" /\ \A k \in (b + 4)..(e - 1) : s[k] \in WhiteSpace}
        Closings(a) == {b \in (a + 1)..Len(s) :
                           IsAt(s, b, <<"\n", "-", "-", "-">>) /\ Ends(b) # {}}
        openings == {a \in 4..Len(s) :
                        /\ s[a] = "\n"
                        /\ \A k \in 4..(a - 1) : s[k] \in WhiteSpace
                        /\ Closings(a) # {}}
    IN IF ~IsAt(s, 1, <<"-", "-", "-">>) \/ openings = {} THEN 0
       ELSE LET a == CHOOSE a \in openings : \A h \in openings : h <= a
                b == CHOOSE b \in Closings(a) : \A h \in Closings(a) : b <= h
            IN CHOOSE e \in Ends(b) : \A h \in Ends(b) : h <= e

\* re.sub of the front-matter pattern: the match is removed.
FrontMatterSub(s) == SubSeq(s, FrontMatterEnd(s) + 1, Len(s))

\* The match of a task-list pattern (white space, "- [", the mark, "]") that
\* starts at position i of s: the white space may run over line breaks.
TaskMatchAt(s, i, mark) ==
    LET rest == {k \in i..Len(s) : s[k] \notin WhiteSpace}
        w == IF rest = {} THEN Len(s) + 1 ELSE CHOOSE k \in rest : \A h \in rest : k <= h
    IN IF IsAt(s, w, <<"-", " ", "[", mark, "]">>) THEN [end |-> w + 4] ELSE NoMatch

\* The ballot boxes U+2611 (checked) and U+2610 (unchecked), characters written
\* "<checked>" and "<unchecked>" here.
CheckedBox == "<checked>"
UncheckedBox == "<unchecked>"

\* What the replacement template of a task-list substitution expands to: its
\* doubled backslash is a literal backslash, so the white space matched is not
\* copied.
TaskReplacement(box) == <<"\\", "1", "-", " ", box>>

RECURSIVE TaskSubFrom(_, _, _, _)
\* re.sub of a task-list pattern on the part of s from position i on: with
\* MULTILINE a match starts at the start of the text or after a line break.
TaskSubFrom(s, i, mark, box) ==
    LET starts == {j \in i..Len(s) :
                      (j = 1 \/ s[j - 1] = "\n") /\ TaskMatchAt(s, j, mark).end # 0}
    IN IF starts = {} THEN SubSeq(s, i, Len(s))
       ELSE LET j == CHOOSE j \in starts : \A h \in starts : j <= h
            IN SubSeq(s, i, j - 1) \o TaskReplacement(box)
               \o TaskSubFrom(s, TaskMatchAt(s, j, mark).end + 1, mark, box)

\* The two task-list substitutions of _preprocess_markdown.
TaskSub(s) == TaskSubFrom(TaskSubFrom(s, 1, "x", CheckedBox), 1, " ", UncheckedBox)

\* SimpleImprovedConverter._preprocess_markdown: front matter, task lists,
\* strikethrough.
PreprocessMarkdown(content) == StrikeSubFrom(TaskSub(FrontMatterSub(content)), 1)

RECURSIVE SplitLinesFrom(_, _)
\* content.split('\n') on the part of s from position i on.
SplitLinesFrom(s, i) ==
    LET j == FirstIndex(s, i, "\n")
    IN IF j = 0 THEN <<SubSeq(s, i, Len(s))>>
       ELSE <<SubSeq(s, i, j - 1)>> \o SplitLinesFrom(s, j + 1)

\* content.split('\n')
SplitLines(content) == SplitLinesFrom(content, 1)

\* str.strip()
Strip(s) ==
    LET keep == {k \in 1..Len(s) : s[k] \notin {" ", "\n", "\t", "\r"}}
    IN IF keep = {} THEN << >>
       ELSE SubSeq(s, CHOOSE k \in keep : \A h \in keep : k <= h,
                      CHOOSE k \in keep : \A h \in keep : h <= k)

RECURSIVE ConvertContentFrom(_, _)
\* The loop of MarkdownConverter._convert_content from line i on: the elements
\* it appends.  A table row holds a "|"; no text of this model holds one.
ConvertContentFrom(lines, i) ==
    IF i > Len(lines) THEN << >>
    ELSE LET line == Strip(lines[i])
         IN IF line = << >>
            THEN << <<"text", "paragraph", line>> >> \o ConvertContentFrom(lines, i + 1)
            ELSE IF line[1] = "#"
            THEN << <<"text", "heading", line>> >> \o ConvertContentFrom(lines, i + 1)
            ELSE IF IsAt(line, 1, <<BackTick, BackTick, BackTick>>)
            THEN LET closing == {j \in (i + 1)..Len(lines) :
                                    IsAt(Strip(lines[j]), 1, <<BackTick, BackTick, BackTick>>)}
                     j == IF closing = {} THEN Len(lines) + 1
                          ELSE CHOOSE j \in closing : \A h \in closing : j <= h
                 IN << <<"text", "code", SubSeq(lines, i + 1, j - 1)>> >>
                    \o ConvertContentFrom(lines, IF j <= Len(lines) THEN j + 1 ELSE j)
            ELSE << <<"text", "paragraph", line>> >> \o ConvertContentFrom(lines, i + 1)

\* MarkdownConverter._convert_content: the elements it appends.
ConvertContent(content) == ConvertContentFrom(SplitLines(content), 1)

\* What md.convert and _convert_html_to_docx can append for content: block
\* elements made from its lines, at most one per line.
HtmlToDocx(content) ==
    {[k \in 1..n |-> <<"text", "html", << >> >>] : n \in 0..Len(SplitLines(content))}

\* The elements the main pass of a converter can append for content.
MainPass(class, content) ==
    IF class = "MarkdownConverter" THEN {ConvertContent(content)} ELSE HtmlToDocx(content)

\* What can happen to the references process_images handles, one outcome each.
ImageRuns(matches) ==
    {outs \in [1..Len(matches) -> {"added", "absent", "raises", "added_unlink_raises",
                                      "absent_exists_raises"}] :
        \A k \in 1..Len(matches) : outs[k] \in ImageOutcomes(matches[k].image_path)}

RECURSIVE ProcessImagesFrom(_, _, _, _, _)
\* The loop of process_images from match i on: the text and the document it ends with.
ProcessImagesFrom(text, doc, matches, outs, i) ==
    IF i > Len(matches) THEN [text |-> text, doc |-> doc]
    ELSE ProcessImagesFrom(ImageStepText(text, matches[i], outs[i]),
                           ImageStepDoc(doc, matches[i], outs[i]), matches, outs, i + 1)

\* ImageHandler.process_images(doc, content) when the references fare as outs says.
ProcessImages(doc, content, outs) ==
    ProcessImagesFrom(content, doc, FindImages(content), outs, 1)

\* What can happen to the blocks process_mermaid handles, one outcome each.
MermaidRuns(matches, available) ==
    [1..Len(matches) -> MermaidOutcomes(available)]

RECURSIVE ProcessMermaidFrom(_, _, _, _, _)
\* The loops of process_mermaid from match i on.
ProcessMermaidFrom(text, doc, matches, outs, i) ==
    IF i > Len(matches) THEN [text |-> text, doc |-> doc]
    ELSE ProcessMermaidFrom(MermaidStepText(text, matches[i], outs[i]),
                            MermaidStepDoc(doc, i, outs[i]), matches, outs, i + 1)

\* MermaidHandler.process_mermaid(doc, content) when the blocks fare as outs says.
ProcessMermaid(doc, content, outs) ==
    ProcessMermaidFrom(content, doc, FindMermaid(content), outs, 1)

\* The pieces the contents of convert are put together from: plain text, a
\* line break, a reference whose alt text is "Image: ", a reference that stands
\* between "!" and "(p)", a mermaid block, a strikethrough span.
ConvertPieces ==
    { <<"x">>,
      <<"\n">>,
      <<"!", "[", "I", "m", "a", "g", "e", ":", " ", "]", "(", "p", ")">>,
      <<"!", "!", "[", "]", "(", "p", ")", "(", "p", ")">>,
      MermaidBlock(<<"A">>),
      <<"~", "~", "x", "~", "~">> }

ConvertContents == {Concat(ps) : ps \in SeqsUpTo(ConvertPieces, MaxParts)}

\* template_name values: omitted, empty, the name of a template, an unknown name.
ConvertTemplateNames == {NoText, << >>, <<"a">>, <<"z", "z">>}

\* template_path values of the constructor: omitted, empty, a template, a
\* Word document that is not a template.
ConstructorPaths ==
    {NoText, << >>, PathStr(<<"e", "1">>, <<"a", ".", "d", "o", "t", "x">>), PathStr(<<"e", "1">>, <<"a", ".", "d", "o", "c", "x">>)}

\* A converter and the arguments of one convert call: either the template
\* inputs vary and the content is plain, or the content varies and no
\* template is involved.
InitConvert ==
    /\ cClass \in ConverterClasses
    /\ \/ /\ tmFiles \in Stores(MaxConvertTemplates)
          /\ template_dirs \in DirLists
          /\ self_template_path \in ConstructorPaths
          /\ cMermaidAvailable = FALSE
          /\ \E template_name \in ConvertTemplateNames :
                cArgs = [markdown_content |-> <<"x">>,
                         metadata |-> [given |-> FALSE, items |-> {}],
                         template_name |-> template_name]
       \/ /\ tmFiles = {}
          /\ template_dirs = << >>
          /\ self_template_path = NoText
          /\ cMermaidAvailable \in BOOLEAN
          /\ \E markdown_content \in ConvertContents, metadata \in Metadatas :
                cArgs = [markdown_content |-> markdown_content, metadata |-> metadata,
                         template_name |-> NoText]
    /\ NoTemplateCall
    /\ cPc = "idle"
    /\ cLog = << >>
    /\ template_path = NoText
    /\ cDocFrom = NoText
    /\ cDoc = << >>
    /\ core_props = {}
    /\ processed_content = << >>
    /\ cFound = [images |-> << >>, mermaid |-> << >>]
    /\ cMainInput = << >>

\* convert: the template path and the document (Document(template_path) can
\* raise, Document() does not).
ConvertCreateDocument ==
    /\ cPc = "idle"
    /\ \E ts \in ListTemplates(template_dirs), opens \in BOOLEAN :
          LET named == GetTemplatePath(ts, cArgs.template_name)
              path == ResolveTemplatePath(cArgs.template_name, named, self_template_path)
          IN /\ template_path' = path
             /\ IF TruthyStr(path) /\ ValidateTemplate(path)
                THEN IF opens
                     THEN /\ cDocFrom' = path
                          /\ cDoc' = << <<"template", path>> >>
                          /\ cLog' = <<"document">>
                          /\ cPc' = "metadata"
                     ELSE /\ cDocFrom' = NoText
                          /\ cDoc' = << >>
                          /\ cLog' = << >>
                          /\ cPc' = "raised"
                ELSE /\ opens
                     /\ cDocFrom' = Blank
                     /\ cDoc' = << >>
                     /\ cLog' = <<"document">>
                     /\ cPc' = "metadata"
    /\ UNCHANGED <<cClass, self_template_path, cArgs, cMermaidAvailable, core_props,
                   processed_content, cFound, cMainInput>>
    /\ UNCHANGED nonConvertVars

\* if metadata: self._add_metadata(doc, metadata)
ConvertMetadata ==
    /\ cPc = "metadata"
    /\ IF MetadataTruthy(cArgs.metadata)
       THEN /\ core_props' = AddMetadata(core_props, cArgs.metadata)
            /\ cLog' = Append(cLog, "metadata")
       ELSE UNCHANGED <<core_props, cLog>>
    /\ cPc' = IF cClass = "SimpleImprovedConverter" THEN "preprocess" ELSE "images"
    /\ UNCHANGED <<cClass, self_template_path, cArgs, cMermaidAvailable, template_path,
                   cDocFrom, cDoc, processed_content, cFound, cMainInput>>
    /\ UNCHANGED nonConvertVars

\* SimpleImprovedConverter: processed_content = self._preprocess_markdown(markdown_content)
ConvertPreprocess ==
    /\ cPc = "preprocess"
    /\ processed_content' = PreprocessMarkdown(cArgs.markdown_content)
    /\ cLog' = Append(cLog, "preprocess")
    /\ cPc' = "images"
    /\ UNCHANGED <<cClass, self_template_path, cArgs, cMermaidAvailable, template_path,
                   cDocFrom, cDoc, core_props, cFound, cMainInput>>
    /\ UNCHANGED nonConvertVars

\* processed_content = self.image_handler.process_images(doc, ...)
ConvertImages ==
    /\ cPc = "images"
    /\ LET content == IF cClass = "MarkdownConverter" THEN cArgs.markdown_content
                      ELSE processed_content
       IN \E outs \in ImageRuns(FindImages(content)) :
             /\ processed_content' = ProcessImages(cDoc, content, outs).text
             /\ cDoc' = ProcessImages(cDoc, content, outs).doc
             /\ cFound' = [cFound EXCEPT !.images = FindImages(content)]
    /\ cLog' = Append(cLog, "images")
    /\ cPc' = "mermaid"
    /\ UNCHANGED <<cClass, self_template_path, cArgs, cMermaidAvailable, template_path,
                   cDocFrom, core_props, cMainInput>>
    /\ UNCHANGED nonConvertVars

\* processed_content = self.mermaid_handler.process_mermaid(doc, processed_content)
ConvertMermaid ==
    /\ cPc = "mermaid"
    /\ \E outs \in MermaidRuns(FindMermaid(processed_content), cMermaidAvailable) :
          /\ processed_content' = ProcessMermaid(cDoc, processed_content, outs).text
          /\ cDoc' = ProcessMermaid(cDoc, processed_content, outs).doc
    /\ cFound' = [cFound EXCEPT !.mermaid = FindMermaid(processed_content)]
    /\ cLog' = Append(cLog, "mermaid")
    /\ cPc' = "main"
    /\ UNCHANGED <<cClass, self_template_path, cArgs, cMermaidAvailable, template_path,
                   cDocFrom, core_props, cMainInput>>
    /\ UNCHANGED nonConvertVars

\* The main pass (_convert_content, or md.convert and _convert_html_to_docx)
\* and return doc.
ConvertMain ==
    /\ cPc = "main"
    /\ cMainInput' = processed_content
    /\ \E elements \in MainPass(cClass, processed_content) : cDoc' = cDoc \o elements
    /\ cLog' = Append(cLog, "main")
    /\ cPc' = "done"
    /\ UNCHANGED <<cClass, self_template_path, cArgs, cMermaidAvailable, template_path,
                   cDocFrom, core_props, processed_content, cFound>>
    /\ UNCHANGED nonConvertVars

NextConvert ==
    \/ ConvertCreateDocument
    \/ ConvertMetadata
    \/ ConvertPreprocess
    \/ ConvertImages
    \/ ConvertMermaid
    \/ ConvertMain

\* ---------------------------------------------------------- claims, part 6

\* Every occurrence of step a in the log precedes every occurrence of step b.
Before(a, b) == \A i, j \in 1..Len(cLog) : (cLog[i] = a /\ cLog[j] = b) => i < j

\* The steps of the pipeline ran in the order the claim gives.
PipelineInOrder ==
    /\ {"images", "mermaid", "main"} \subseteq Range(cLog)
    /\ \A later \in {"preprocess", "images", "mermaid", "main"} : Before("metadata", later)
    /\ MetadataTruthy(cArgs.metadata) => "metadata" \in Range(cLog)
    /\ Before("images", "mermaid")
    /\ Before("images", "main")
    /\ Before("mermaid", "main")

\* Every embedded picture stands in the document before every element made
\* from the text.
PicturesBeforeText ==
    \A i, j \in 1..Len(cDoc) : (cDoc[i][1] = "picture" /\ cDoc[j][1] = "text") => i < j

\* The text the main pass received holds none of the matched image references
\* and none of the matched mermaid blocks.
MainInputHasNoMatch ==
    /\ \A n \in 1..Len(cFound.images) :
          ~Contains(cMainInput, ImageMarkdown(cFound.images[n]))
    /\ \A n \in 1..Len(cFound.mermaid) :
          ~Contains(cMainInput, MermaidBlock(cFound.mermaid[n]))

\* C7: in both converters metadata is applied first, image references are
\* processed before mermaid blocks and both before the main pass; every
\* embedded picture is appended before any element produced from the text, and
\* the main pass only receives text in which the matched image references and
\* mermaid blocks have been replaced by placeholders.
C7_PipelineOrdering ==
    cPc = "done" => PipelineInOrder /\ PicturesBeforeText /\ MainInputHasNoMatch

\* C7, the part about the order of the steps and of the elements.
C7_OrderOfSteps ==
    cPc = "done" => PipelineInOrder /\ PicturesBeforeText

\* The document was created from path if that path is non-empty and
\* validate_template accepts it, and is a blank document otherwise, in which
\* case creating it did not raise.
CreatedFrom(path) ==
    IF TruthyStr(path) /\ ValidateTemplate(path)
    THEN cDocFrom \in {path, NoText}
    ELSE cDocFrom = Blank /\ cPc # "raised"

\* C8: the template path is the named template's path when template_name is
\* given, otherwise the constructor's template_path; the document is created
\* from that path only if it is non-empty and validate_template accepts it, and
\* from a blank document otherwise; an unknown name or an invalid path never
\* raises, and a given template_name that does not resolve does not fall back
\* to the constructor's template_path.
C8_TemplateResolution ==
    cPc # "idle" =>
        LET given == cArgs.template_name # NoText
            named == FirstNamed(template_dirs, cArgs.template_name)
        IN /\ CreatedFrom(IF given THEN named ELSE self_template_path)
           /\ (given /\ named = NoText) => cDocFrom = Blank

\* C8 amended: as C8, with "given" read as given and not the empty string; an
\* empty template_name counts as omitted.
C8_TemplateResolutionNonEmptyName ==
    cPc # "idle" =>
        LET given == TruthyStr(cArgs.template_name)
            named == FirstNamed(template_dirs, cArgs.template_name)
        IN /\ CreatedFrom(IF given THEN named ELSE self_template_path)
           /\ (given /\ named = NoText) => cDocFrom = Blank

\* C8 witness: a name that no listed template has was given to a converter
\* whose constructor path is a valid template, and the document is blank.
C8_Witness ==
    /\ cPc = "done"
    /\ TruthyStr(cArgs.template_name)
    /\ template_path = NoText
    /\ ValidateTemplate(self_template_path)
    /\ cDocFrom = Blank

(***************************************************************************)
(* Part 7: the loop of MarkdownConverter._convert_content with             *)
(* _add_code_block, _is_table_row and _add_table.                          *)
(***************************************************************************)
\* F(x), with x evaluated once before F is applied to it.
Apply(F(_), x) == CHOOSE r \in {F(v) : v \in {x}} : TRUE

\* The least number of a non-empty set of numbers.
Least(S) == CHOOSE k \in S : \A h \in S : k <= h

\* lines[k] of the code: the list index of the first line is 0.
LineAt(ls, k) == ls[k + 1]

\* s.startswith(w)
StartsWith(s, w) == IsAt(s, 1, w)

\* s.lstrip(chars)
LStrip(s, chars) ==
    LET keep == {k \in 1..Len(s) : s[k] \notin chars}
    IN IF keep = {} THEN << >> ELSE SubSeq(s, Least(keep), Len(s))

\* s.split(sep), sep one character: the pieces between the places sep is at.
Split(s, sep) ==
    LET at == {k \in 1..Len(s) : s[k] = sep}
        cut(n) == IF n = 0 THEN 0
                  ELSE IF n > Cardinality(at) THEN Len(s) + 1
                  ELSE CHOOSE k \in at : Cardinality({h \in at : h <= k}) = n
    IN [n \in 1..(Cardinality(at) + 1) |-> SubSeq(s, cut(n - 1) + 1, cut(n) - 1)]

RECURSIVE Join(_, _)
\* sep.join(parts)
Join(sep, parts) ==
    IF parts = << >> THEN << >>
    ELSE IF Len(parts) = 1 THEN parts[1]
    ELSE parts[1] \o sep \o Join(sep, Tail(parts))

\* What doc.add_paragraph, doc.add_heading and doc.add_table append to the body.
Paragraph(text, style) ==
    [kind |-> "paragraph", style |-> style, level |-> 0, text |-> text, rows |-> << >>]
Heading(text, level) ==
    [kind |-> "heading", style |-> "Heading", level |-> level, text |-> text, rows |-> << >>]
Table(rows) ==
    [kind |-> "table", style |-> "Table", level |-> 0, text |-> << >>, rows |-> rows]

\* The three backticks of a fence.
Fence == <<BackTick, BackTick, BackTick>>

\* A variant of the level that counts the spaces after the "#" characters too.
HeadingLevelCountsSpaces(line) == Len(line) - Len(LStrip(line, {"#", " "}))

\* level = len(line) - len(line.lstrip('#'))
HeadingLevel(line) == Len(line) - Len(LStrip(line, {"#"}))

\* text = line.lstrip('# ').strip()
HeadingText(line) == Strip(LStrip(line, {"#", " "}))

\* The smaller of two numbers.
Min(a, b) == IF a <= b THEN a ELSE b

\* A variant of _add_code_block that takes the closing fence into the block.
AddCodeBlockKeepsFence(ls, start_idx) ==
    LET closing == {k \in (start_idx + 1)..(Len(ls) - 1) :
                        StartsWith(Strip(LineAt(ls, k)), Fence)}
        k == IF closing = {} THEN Len(ls) ELSE Least(closing) + 1
        code_lines == [n \in 1..(k - start_idx - 1) |-> LineAt(ls, start_idx + n)]
    IN [i |-> k, added |-> <<Paragraph(Join(<<"\n">>, code_lines), "No Spacing")>>]

\* _add_code_block(doc, lines, start_idx): the index it returns and what it
\* adds to the document.
AddCodeBlock(ls, start_idx) ==
    LET closing == {k \in (start_idx + 1)..(Len(ls) - 1) :
                        StartsWith(Strip(LineAt(ls, k)), Fence)}
        k == IF closing = {} THEN Len(ls) ELSE Least(closing)
        code_lines == [n \in 1..(k - start_idx - 1) |-> LineAt(ls, start_idx + n)]
    IN [i |-> IF k < Len(ls) THEN k + 1 ELSE k,
        added |-> <<Paragraph(Join(<<"\n">>, code_lines), "No Spacing")>>]

\* _is_table_row(line)
IsTableRow(line) ==
    /\ Contains(line, <<"|">>)
    /\ StartsWith(Strip(line), <<"|">>)
    /\ EndsWith(Strip(line), <<"|">>)

\* re.match(r'^\|[\s\-:]+\|$', line) of a line that holds no line end.
SeparatorMatch(line) ==
    /\ Len(line) >= 3
    /\ line[1] = "|"
    /\ line[Len(line)] = "|"
    /\ \A k \in 2..(Len(line) - 1) : line[k] \in {" ", "\t", "\r", "-", ":"}

\* cells = [cell.strip() for cell in line.split('|')[1:-1]]
Cells(line) ==
    LET parts == Split(line, "|")
    IN [k \in 1..(Len(parts) - 2) |-> Strip(parts[k + 1])]

\* The test _add_table makes of a line of table_lines: it is no separator row
\* and has cells.
HasCells(line) == ~SeparatorMatch(line) /\ Cells(line) # << >>

\* The rows _add_table parses from table_lines.
TableRows(table_lines) ==
    LET kept == SelectSeq(table_lines, HasCells)
    IN [n \in 1..Len(kept) |-> Apply(Cells, kept[n])]

\* The cells <<row, column>> (counted from 1) that rows has data for.
DataCells(rows) ==
    UNION {{<<r, c>> : c \in 1..Len(rows[r])} : r \in 1..Len(rows)}

\* A variant of the populate loop without its test of the column index.
CellsAssignedUnguarded(rows) == DataCells(rows)

\* The populate loop of _add_table: the cells whose text it sets, those of
\* the data whose column index is below the number of cells of the table row.
CellsAssigned(rows) == {rc \in DataCells(rows) : rc[2] <= Len(rows[1])}

\* doc.add_table(rows=len(rows), cols=len(rows[0])) filled from rows: a cell
\* that is not assigned stays empty; an assignment to a cell the table does
\* not have raises IndexError.
FilledTable(rows) ==
    LET assigned == CellsAssigned(rows)
    IN IF \E rc \in assigned : rc[2] > Len(rows[1]) THEN Raised
       ELSE Table([r \in 1..Len(rows) |->
                     [c \in 1..Len(rows[1]) |->
                         IF <<r, c>> \in assigned THEN rows[r][c] ELSE << >>]])

\* A variant of _add_table that returns the index after the line the run of
\* table rows stopped at.
AddTableOvershoots(ls, start_idx) ==
    LET others == {k \in start_idx..(Len(ls) - 1) : ~IsTableRow(LineAt(ls, k))}
        k == IF others = {} THEN Len(ls) ELSE Least(others)
    IN [i |-> k + 1, added |-> << >>]

\* A variant of _add_table that keeps the lines of a run it makes no table of
\* as a paragraph.
AddTableKeepsText(ls, start_idx) ==
    LET others == {k \in start_idx..(Len(ls) - 1) : ~IsTableRow(LineAt(ls, k))}
        k == IF others = {} THEN Len(ls) ELSE Least(others)
        table_lines == [n \in 1..(k - start_idx) |-> Strip(LineAt(ls, start_idx + n - 1))]
        rows == Apply(TableRows, table_lines)
    IN IF Len(table_lines) < 2 \/ rows = << >>
       THEN [i |-> k, added |-> <<Paragraph(Join(<<"\n">>, table_lines), "Normal")>>]
       ELSE [i |-> k, added |-> <<Apply(FilledTable, rows)>>]

\* _add_table(doc, lines, start_idx): the index it returns and what it adds to
\* the document.
AddTable(ls, start_idx) ==
    LET others == {k \in start_idx..(Len(ls) - 1) : ~IsTableRow(LineAt(ls, k))}
        k == IF others = {} THEN Len(ls) ELSE Least(others)
        table_lines == [n \in 1..(k - start_idx) |-> Strip(LineAt(ls, start_idx + n - 1))]
        rows == Apply(TableRows, table_lines)
    IN IF Len(table_lines) < 2 THEN [i |-> k, added |-> << >>]
       ELSE IF rows = << >> THEN [i |-> k, added |-> << >>]
       ELSE [i |-> k, added |-> <<Apply(FilledTable, rows)>>]

\* The lines the contents of this part are put together from.
ContentLines ==
    { << >>, <<" ", "y", " ">>,
      <<"#", " ", "h">>,
      <<" ", "#", "#", "#", "#", "#", "#", "#", "#", "#", "#", "x">>,
      Fence, <<" ">> \o Fence \o <<"p", "y">>,
      <<"|", "a", "|">>, <<"|", "a", "|", " ", "b", "|">>,
      <<"|", "-", "|">>, <<"|", "-", "|", "-", "|">> }

\* The contents _convert_content is called with.
ContentTexts ==
    {Join(<<"\n">>, ls) : ls \in SeqsUpTo(ContentLines, MaxLines) \ {<< >>}}

\* The converter before _convert_content is called.
InitContent ==
    /\ ccContent = << >>
    /\ ccLines = << >>
    /\ ccI = 0
    /\ ccBody = << >>
    /\ ccIter = << >>
    /\ ccPc = "idle"

\* One iteration of the loop that took branch b, moved i to k and added els.
Iteration(b, k, els) ==
    /\ ccI' = k
    /\ ccBody' = ccBody \o els
    /\ ccIter' = Append(ccIter, [branch |-> b, from |-> ccI, to |-> k, added |-> els])
    /\ UNCHANGED <<ccContent, ccLines, ccPc>>
    /\ UNCHANGED nonContentVars

\* _convert_content(doc, content) is called: lines = content.split('\n'); i = 0
ConvertContentCall ==
    /\ ccPc = "idle"
    /\ \E content \in ContentTexts :
          /\ ccContent' = content
          /\ ccLines' = SplitLines(content)
    /\ ccI' = 0
    /\ ccPc' = "loop"
    /\ UNCHANGED <<ccBody, ccIter>>
    /\ UNCHANGED nonContentVars

\* The loop is at a line: while i < len(lines)
InLoop == ccPc = "loop" /\ ccI < Len(ccLines)

\* line = lines[i].strip()
CurrentLine == {Strip(LineAt(ccLines, ccI))}

\* if not line: doc.add_paragraph()
BlankLine ==
    /\ InLoop
    /\ \E line \in CurrentLine :
          /\ line = << >>
          /\ Iteration("blank", ccI + 1, <<Paragraph(<< >>, "Normal")>>)

\* if line.startswith('#'): doc.add_heading(text, level=min(level, 9))
HeadingLine ==
    /\ InLoop
    /\ \E line \in CurrentLine :
          /\ line # << >>
          /\ StartsWith(line, <<"#">>)
          /\ Iteration("heading", ccI + 1,
                       <<Heading(HeadingText(line), Min(HeadingLevel(line), 9))>>)

\* if line.startswith(fence): i = self._add_code_block(doc, lines, i)
CodeBlock ==
    /\ InLoop
    /\ \E line \in CurrentLine :
          /\ line # << >>
          /\ ~StartsWith(line, <<"#">>)
          /\ StartsWith(line, Fence)
    /\ \E r \in {AddCodeBlock(ccLines, ccI)} : Iteration("code", r.i, r.added)

\* if self._is_table_row(line): i = self._add_table(doc, lines, i)
TableRun ==
    /\ InLoop
    /\ \E line \in CurrentLine :
          /\ line # << >>
          /\ ~StartsWith(line, <<"#">>)
          /\ ~StartsWith(line, Fence)
          /\ IsTableRow(line)
    /\ \E r \in {AddTable(ccLines, ccI)} : Iteration("table", r.i, r.added)

\* self._add_formatted_paragraph(doc, line)
ParagraphLine ==
    /\ InLoop
    /\ \E line \in CurrentLine :
          /\ line # << >>
          /\ ~StartsWith(line, <<"#">>)
          /\ ~StartsWith(line, Fence)
          /\ ~IsTableRow(line)
          /\ Iteration("paragraph", ccI + 1, <<Paragraph(line, "Normal")>>)

\* while i < len(lines) is false: the function returns.
ConvertContentReturn ==
    /\ ccPc = "loop"
    /\ ~(ccI < Len(ccLines))
    /\ ccPc' = "done"
    /\ UNCHANGED <<ccContent, ccLines, ccI, ccBody, ccIter>>
    /\ UNCHANGED nonContentVars

NextContent ==
    \/ ConvertContentCall
    \/ BlankLine
    \/ HeadingLine
    \/ CodeBlock
    \/ TableRun
    \/ ParagraphLine
    \/ ConvertContentReturn

\* Every iteration made so far.
Iterations == {ccIter[n] : n \in 1..Len(ccIter)}

\* The stripped lines an iteration went over.
LinesOf(it) == [n \in 1..(it.to - it.from) |-> Strip(LineAt(ccLines, it.from + n - 1))]

\* A separator row: a row that holds only "|", "-", ":" and spaces.
IsSeparatorRow(line) == \A k \in 1..Len(line) : line[k] \in {"|", "-", ":", " "}

\* C11: every separator row is skipped by _add_table, whatever the number of
\* columns: the Word table has exactly one row per line of the markdown
\* table that is not a separator row.
C11_SeparatorRowsSkipped ==
    \A it \in Iterations :
        (it.branch = "table" /\ it.added # << >>) =>
            Len(it.added[1].rows)
                = Cardinality({n \in 1..Len(LinesOf(it)) : ~IsSeparatorRow(LinesOf(it)[n])})

\* The iterations walk the lines without a gap: the first starts at line 0 and
\* each one starts where the one before it stopped.
Contiguous ==
    \A n \in 1..Len(ccIter) :
        ccIter[n].from = IF n = 1 THEN 0 ELSE ccIter[n - 1].to

\* A line whose stripped text starts with a fence.
IsFenceLine(k) == StartsWith(Strip(LineAt(ccLines, k)), Fence)

\* The index of the first fence line after line k, the number of lines when
\* there is none.
NextFence(k) ==
    LET closing == {h \in (k + 1)..(Len(ccLines) - 1) : IsFenceLine(h)}
    IN IF closing = {} THEN Len(ccLines) ELSE Least(closing)

\* C19: a line whose stripped text starts with a fence opens a code block;
\* the lines after it, up to and not including the next fence line, are
\* emitted verbatim and in order as exactly one paragraph; no fence line and
\* no line of the block is handled by another iteration; scanning resumes on
\* the line after the closing fence, and without a closing fence the block
\* runs to the end of the input.
C19_CodeBlocks ==
    /\ Contiguous
    /\ \A it \in Iterations :
          /\ IsFenceLine(it.from) <=> it.branch = "code"
          /\ it.branch = "code" =>
                LET close == NextFence(it.from)
                IN /\ Len(it.added) = 1
                   /\ it.added[1].kind = "paragraph"
                   /\ SplitLines(it.added[1].text)
                         = IF close = it.from + 1 THEN << << >> >>
                           ELSE SubSeq(ccLines, it.from + 2, close)
                   /\ it.to = IF close < Len(ccLines) THEN close + 1 ELSE Len(ccLines)

\* C19 witness: the loop has finished after a code block that a fence closed,
\* with a line in it.
C19_Witness ==
    /\ ccPc = "done"
    /\ \E it \in Iterations :
          /\ it.branch = "code"
          /\ NextFence(it.from) < Len(ccLines)
          /\ NextFence(it.from) > it.from + 1

\* The lines a code block iteration went over: the fences and the lines
\* between them.
InCodeBlock(k) == \E it \in Iterations : it.branch = "code" /\ it.from <= k /\ k < it.to

\* The number of "#" characters a text starts with.
LeadingHashes(line) ==
    LET other == {k \in 1..Len(line) : line[k] # "#"}
    IN IF other = {} THEN Len(line) ELSE Least(other) - 1

\* A text without the "#" and space characters it starts with.
AfterHashes(line) ==
    LET other == {k \in 1..Len(line) : line[k] \notin {"#", " "}}
    IN IF other = {} THEN << >> ELSE SubSeq(line, Least(other), Len(line))

\* C21: every line outside a code block whose first non-blank character is
\* "#" becomes a heading of level min(k, 9), k the number of leading "#"
\* characters, so a level within 1..9, with or without a space after them;
\* the text of the heading is the line without its leading "#" and space
\* characters.
C21_Headings ==
    \A k \in 0..(ccI - 1) :
        LET line == Strip(LineAt(ccLines, k))
        IN (~InCodeBlock(k) /\ line # << >> /\ line[1] = "#") =>
              \E it \in Iterations :
                  /\ it.from = k /\ it.to = k + 1
                  /\ Len(it.added) = 1
                  /\ it.added[1].kind = "heading"
                  /\ it.added[1].level \in 1..9
                  /\ it.added[1].level
                        = (IF LeadingHashes(line) <= 9 THEN LeadingHashes(line) ELSE 9)
                  /\ it.added[1].text = AfterHashes(line)

\* C21 witness: the loop has finished after a heading of level 9 made from a
\* line of ten "#" characters without a space, a heading of level 1, and a
\* line starting with "#" that a code block took.
C21_Witness ==
    /\ ccPc = "done"
    /\ \E it \in Iterations :
          /\ it.branch = "heading"
          /\ it.added[1].level = 9
          /\ LeadingHashes(Strip(LineAt(ccLines, it.from))) = 10
    /\ \E k \in 0..(Len(ccLines) - 1) :
          InCodeBlock(k) /\ StartsWith(Strip(LineAt(ccLines, k)), <<"#">>)

\* The index of the first line from line k on that is no table row, the number
\* of lines when there is none.
RunEnd(k) ==
    LET others == {h \in k..(Len(ccLines) - 1) : ~IsTableRow(LineAt(ccLines, h))}
    IN IF others = {} THEN Len(ccLines) ELSE Least(others)

\* C23: a run of consecutive table-row lines that has fewer than two lines, or
\* that no row with a cell is collected from, adds no element to the
\* document: the document holds what the iterations added and nothing of the
\* run, and scanning resumes at the first line after the run.
C23_DroppedTableRuns ==
    /\ ccBody = Concat([n \in 1..Len(ccIter) |-> ccIter[n].added])
    /\ \A it \in Iterations :
          it.branch = "table" =>
              /\ it.to = RunEnd(it.from)
              /\ (it.to - it.from < 2 \/ TableRows(LinesOf(it)) = << >>) => it.added = << >>

\* C23 witness: the loop has finished; it went over a run of one table-row
\* line, added nothing for it and went on with the line after it.
C23_Witness ==
    /\ ccPc = "done"
    /\ \E n \in 1..(Len(ccIter) - 1) :
          /\ ccIter[n].branch = "table"
          /\ ccIter[n].to = ccIter[n].from + 1
          /\ ccIter[n].added = << >>
          /\ ccIter[n + 1].from = ccIter[n].to
          /\ ccIter[n + 1].added # << >>
    /\ \A n \in 1..Len(ccBody) : ~Contains(ccBody[n].text, <<"|">>)

\* C20: every iteration of the loop moves the line index forward by at least
\* one and never beyond the number of lines, and the loop ends.
C20_ConvertContentTerminates ==
    /\ [](\A it \in Iterations : it.from < it.to /\ it.to <= Len(ccLines))
    /\ [](ccI <= Len(ccLines))
    /\ <>(ccPc = "done")

\* C20 witness: the loop has ended at the last line after iterations of two
\* kinds, one of which went over more than one line.
C20_Witness ==
    /\ ccPc = "done"
    /\ ccI = Len(ccLines)
    /\ \E it \in Iterations : it.to > it.from + 1
    /\ Cardinality({it.branch : it \in Iterations}) >= 2

(***************************************************************************)
(* Part 8: StyleMapper.                                                    *)
(***************************************************************************)
\* The values of the MarkdownElement enumeration.
MarkdownElement ==
    { "h1", "h2", "h3", "h4", "h5", "h6",
      "p", "em", "strong", "code", "del",
      "blockquote", "pre", "hr",
      "ul", "ol", "li", "task_checked", "task_unchecked",
      "table", "th", "td",
      "a", "img" }

\* WordStyle(name): every optional property is None.  An optional property
\* is None or the tuple of its value.
WordStyle(name) ==
    [name |-> name, font_name |-> None, font_size |-> None, bold |-> None,
     italic |-> None, underline |-> None, color |-> None, background_color |-> None,
     paragraph_style |-> None]

\* WordStyle(name, paragraph_style=name)
ParagraphStyle(name, paragraph_style) ==
    [WordStyle(name) EXCEPT !.paragraph_style = <<paragraph_style>>]

\* StyleMapper._create_default_mappings
CreateDefaultMappings ==
    [e \in MarkdownElement |->
        CASE e = "h1" -> ParagraphStyle("Heading 1", "Heading 1")
          [] e = "h2" -> ParagraphStyle("Heading 2", "Heading 2")
          [] e = "h3" -> ParagraphStyle("Heading 3", "Heading 3")
          [] e = "h4" -> ParagraphStyle("Heading 4", "Heading 4")
          [] e = "h5" -> ParagraphStyle("Heading 5", "Heading 5")
          [] e = "h6" -> ParagraphStyle("Heading 6", "Heading 6")
          [] e = "p" -> ParagraphStyle("Normal", "Normal")
          [] e = "em" -> [WordStyle("Emphasis") EXCEPT !.italic = <<TRUE>>]
          [] e = "strong" -> [WordStyle("Strong") EXCEPT !.bold = <<TRUE>>]
          [] e = "code" -> [WordStyle("Code Inline") EXCEPT
                                !.font_name = <<"Courier New">>,
                                !.background_color = <<"light_gray">>]
          [] e = "del" -> [WordStyle("Strikethrough") EXCEPT !.underline = <<TRUE>>]
          [] e = "blockquote" -> ParagraphStyle("Quote", "Quote")
          [] e = "pre" -> [WordStyle("Code Block") EXCEPT
                                !.font_name = <<"Courier New">>,
                                !.font_size = <<10>>,
                                !.background_color = <<"light_gray">>,
                                !.paragraph_style = <<"No Spacing">>]
          [] e = "hr" -> ParagraphStyle("Horizontal Rule", "Normal")
          [] e = "ul" -> ParagraphStyle("List Bullet", "List Bullet")
          [] e = "ol" -> ParagraphStyle("List Number", "List Number")
          [] e = "li" -> ParagraphStyle("List Item", "List Paragraph")
          [] e = "task_checked" -> ParagraphStyle("Task List Checked", "List Bullet")
          [] e = "task_unchecked" -> ParagraphStyle("Task List Unchecked", "List Bullet")
          [] e = "table" -> ParagraphStyle("Table", "Table Grid")
          [] e = "th" -> [WordStyle("Table Header") EXCEPT
                                !.bold = <<TRUE>>,
                                !.background_color = <<"light_blue">>]
          [] e = "td" -> ParagraphStyle("Table Cell", "Normal")
          [] e = "a" -> [WordStyle("Hyperlink") EXCEPT
                                !.color = <<"blue">>, !.underline = <<TRUE>>]
          [] e = "img" -> ParagraphStyle("Image", "Normal")]

\* dict.get(key) of a dictionary whose values are tuples: None when the key
\* is absent.
Get(dict, key) == IF key \in DOMAIN dict THEN <<dict[key]>> ELSE None

\* get_word_style(markdown_element): None or the tuple of the style.
GetWordStyle(style_map, markdown_element) == Get(style_map, markdown_element)

\* get_word_style_name(markdown_element)
GetWordStyleName(style_map, markdown_element) ==
    LET style == GetWordStyle(style_map, markdown_element)
    IN IF style # None THEN <<style[1].name>> ELSE None

\* The capital letters and, at the same places, the letters str.lower() turns
\* them into.
Capitals ==
    <<"A", "B", "C", "D", "E", "F", "G", "H", "I", "J", "K", "L", "M",
      "N", "O", "P", "Q", "R", "S", "T", "U", "V", "W", "X", "Y", "Z">>
Smalls ==
    <<"a", "b", "c", "d", "e", "f", "g", "h", "i", "j", "k", "l", "m",
      "n", "o", "p", "q", "r", "s", "t", "u", "v", "w", "x", "y", "z">>

\* html_tag.lower()
Lower(s) ==
    [k \in 1..Len(s) |->
        IF \E n \in 1..Len(Capitals) : Capitals[n] = s[k]
        THEN Smalls[CHOOSE n \in 1..Len(Capitals) : Capitals[n] = s[k]]
        ELSE s[k]]

\* The entries of tag_mapping in map_html_tag_to_element: <<tag, element>>.
TagEntries ==
    { << <<"h", "1">>, "h1" >>, << <<"h", "2">>, "h2" >>, << <<"h", "3">>, "h3" >>,
      << <<"h", "4">>, "h4" >>, << <<"h", "5">>, "h5" >>, << <<"h", "6">>, "h6" >>,
      << <<"p">>, "p" >>,
      << <<"e", "m">>, "em" >>, << <<"i">>, "em" >>,
      << <<"s", "t", "r", "o", "n", "g">>, "strong" >>, << <<"b">>, "strong" >>,
      << <<"c", "o", "d", "e">>, "code" >>,
      << <<"d", "e", "l">>, "del" >>, << <<"s">>, "del" >>,
      << <<"b", "l", "o", "c", "k", "q", "u", "o", "t", "e">>, "blockquote" >>,
      << <<"p", "r", "e">>, "pre" >>,
      << <<"h", "r">>, "hr" >>,
      << <<"u", "l">>, "ul" >>, << <<"o", "l">>, "ol" >>, << <<"l", "i">>, "li" >>,
      << <<"t", "a", "b", "l", "e">>, "table" >>,
      << <<"t", "h">>, "th" >>, << <<"t", "d">>, "td" >>,
      << <<"a">>, "a" >>,
      << <<"i", "m", "g">>, "img" >> }

\* tag_mapping.get(tag): None or the tuple of the element.
TagMappingGet(tag) ==
    LET found == {entry \in TagEntries : entry[1] = tag}
    IN IF found = {} THEN None ELSE <<(CHOOSE entry \in found : TRUE)[2]>>

\* A variant of map_html_tag_to_element that looks the tag up as it is written.
MapHtmlTagAsWritten(html_tag) == TagMappingGet(html_tag)

\* map_html_tag_to_element(html_tag): None or the tuple of the element.
MapHtmlTagToElement(html_tag) == Apply(TagMappingGet, Lower(html_tag))

\* get_style_for_html_tag(html_tag): None or the tuple of the style.
GetStyleForHtmlTag(style_map, html_tag) ==
    LET element == MapHtmlTagToElement(html_tag)
    IN IF element # None THEN GetWordStyle(style_map, element[1]) ELSE None

\* A variant of update_style_mapping for a dictionary that all mappers share.
UpdateSharedMapping(maps, mapper, markdown_element, word_style) ==
    [m \in DOMAIN maps |-> [maps[m] EXCEPT ![markdown_element] = word_style]]

\* update_style_mapping(markdown_element, word_style) of one mapper: the
\* dictionaries of all mappers after it.
UpdateStyleMapping(maps, mapper, markdown_element, word_style) ==
    [maps EXCEPT ![mapper] =
        [e \in DOMAIN maps[mapper] \cup {markdown_element} |->
            IF e = markdown_element THEN word_style ELSE maps[mapper][e]]]

\* The StyleMapper instances of this part.
Mappers == {"mapper", "other"}

\* The elements update_style_mapping and the getters are called with.
CalledElements == {"h1", "del"}

\* The styles update_style_mapping is called with: the one of
\* test_style_mapper and one with an empty name.
CustomStyles ==
    { [WordStyle("Custom Header") EXCEPT
          !.font_name = <<"Arial">>, !.font_size = <<14>>, !.bold = <<TRUE>>],
      WordStyle("") }

\* The tags the lookups are called with.
CalledTags ==
    { <<"H", "1">>, <<"D", "e", "l">>, <<"s">>, <<"d", "i", "v">>,
      <<"t", "a", "s", "k", "_", "c", "h", "e", "c", "k", "e", "d">>, << >> }

\* No call of the part was made.
NoStyleCall == [op |-> "none"]

\* StyleMapper(): each mapper has its own dictionary of default mappings.
InitStyles ==
    /\ style_maps = [m \in Mappers |-> CreateDefaultMappings]
    /\ smBefore = [m \in Mappers |-> CreateDefaultMappings]
    /\ smCall = NoStyleCall
    /\ smRet = None
    /\ smUpdates = 0

\* mapper.update_style_mapping(markdown_element, word_style)
CallUpdateStyleMapping ==
    /\ smUpdates < MaxUpdates
    /\ \E m \in Mappers, e \in CalledElements, s \in CustomStyles :
          /\ style_maps' = UpdateStyleMapping(style_maps, m, e, s)
          /\ smCall' = [op |-> "update_style_mapping", mapper |-> m, element |-> e,
                        style |-> s]
    /\ smBefore' = style_maps
    /\ smRet' = None
    /\ smUpdates' = smUpdates + 1
    /\ UNCHANGED nonStyleVars

\* mapper.get_word_style(markdown_element)
CallGetWordStyle ==
    /\ \E m \in Mappers, e \in CalledElements :
          /\ smCall' = [op |-> "get_word_style", mapper |-> m, element |-> e]
          /\ smRet' = GetWordStyle(style_maps[m], e)
    /\ smBefore' = style_maps
    /\ UNCHANGED <<style_maps, smUpdates>>
    /\ UNCHANGED nonStyleVars

\* mapper.get_word_style_name(markdown_element)
CallGetWordStyleName ==
    /\ \E m \in Mappers, e \in CalledElements :
          /\ smCall' = [op |-> "get_word_style_name", mapper |-> m, element |-> e]
          /\ smRet' = GetWordStyleName(style_maps[m], e)
    /\ smBefore' = style_maps
    /\ UNCHANGED <<style_maps, smUpdates>>
    /\ UNCHANGED nonStyleVars

\* mapper.map_html_tag_to_element(html_tag)
CallMapHtmlTagToElement ==
    /\ \E m \in {"mapper"}, tag \in CalledTags :
          /\ smCall' = [op |-> "map_html_tag_to_element", mapper |-> m, tag |-> tag]
          /\ smRet' = MapHtmlTagToElement(tag)
    /\ smBefore' = style_maps
    /\ UNCHANGED <<style_maps, smUpdates>>
    /\ UNCHANGED nonStyleVars

\* mapper.get_style_for_html_tag(html_tag)
CallGetStyleForHtmlTag ==
    /\ \E m \in Mappers, tag \in CalledTags :
          /\ smCall' = [op |-> "get_style_for_html_tag", mapper |-> m, tag |-> tag]
          /\ smRet' = GetStyleForHtmlTag(style_maps[m], tag)
    /\ smBefore' = style_maps
    /\ UNCHANGED <<style_maps, smUpdates>>
    /\ UNCHANGED nonStyleVars

NextStyles ==
    \/ CallUpdateStyleMapping
    \/ CallGetWordStyle
    \/ CallGetWordStyleName
    \/ CallMapHtmlTagToElement
    \/ CallGetStyleForHtmlTag

\* C15: update_style_mapping(e, s) changes only the mapping of e: afterwards
\* get_word_style(e) is s and get_word_style_name(e) is s.name, the style of
\* every other element is what it was, no tag has changed its element, and the
\* other mappers are what they were.
C15_UpdateChangesOnlyOneMapping ==
    smCall.op = "update_style_mapping" =>
        /\ GetWordStyle(style_maps[smCall.mapper], smCall.element) = <<smCall.style>>
        /\ GetWordStyleName(style_maps[smCall.mapper], smCall.element)
              = <<smCall.style.name>>
        /\ \A e \in MarkdownElement \ {smCall.element} :
              GetWordStyle(style_maps[smCall.mapper], e)
                  = GetWordStyle(smBefore[smCall.mapper], e)
        /\ \A tag \in CalledTags :
              MapHtmlTagToElement(tag) # <<smCall.element>> =>
                  GetStyleForHtmlTag(style_maps[smCall.mapper], tag)
                      = GetStyleForHtmlTag(smBefore[smCall.mapper], tag)
        /\ \A m \in Mappers \ {smCall.mapper} : style_maps[m] = smBefore[m]

\* C15 witness: a second update has changed the style of "del" in one mapper
\* after an update of the other mapper.
C15_Witness ==
    /\ smCall.op = "update_style_mapping"
    /\ smCall.element = "del"
    /\ smBefore[smCall.mapper]["del"] # smCall.style
    /\ \E m \in Mappers \ {smCall.mapper} : style_maps[m] # CreateDefaultMappings

\* A tag of the tag table, whatever the case of its letters.
InTagTable(tag) == \E lower \in {Lower(tag)} : \E entry \in TagEntries : entry[1] = lower

\* C16: the table of styles is total and stays total under updates:
\* get_word_style returns a style for every MarkdownElement;
\* map_html_tag_to_element does not look at the case of the letters and
\* returns None exactly for the tags outside its table, and
\* get_style_for_html_tag returns None exactly for those tags.
C16_StyleTableTotal ==
    /\ \A m \in Mappers, e \in MarkdownElement : GetWordStyle(style_maps[m], e) # None
    /\ \A tag \in CalledTags :
          /\ MapHtmlTagToElement(tag) = MapHtmlTagToElement(Lower(tag))
          /\ (MapHtmlTagToElement(tag) = None) <=> ~InTagTable(tag)
          /\ \A m \in Mappers :
                (GetStyleForHtmlTag(style_maps[m], tag) = None) <=> ~InTagTable(tag)

\* C16 witness: after an update, a tag written in capitals has been looked up
\* and its style is the updated one.
C16_Witness ==
    /\ smCall.op = "get_style_for_html_tag"
    /\ smCall.tag = <<"D", "e", "l">>
    /\ smRet # None
    /\ smRet # <<CreateDefaultMappings["del"]>>

(***************************************************************************)
(* Part 9: the tree walker of SimpleImprovedConverter.                     *)
(*                                                                         *)
(* _convert_html_to_docx parses the markup into an element tree and walks  *)
(* it.  The model starts from the tree ET.fromstring returned: an element  *)
(* is its tag, its text (the text before its first child), its children    *)
(* and its tail (the text between its end and the next element).           *)
(* Attributes are left out: the walker reads one only to caption a code    *)
(* block.  Every style of the default mappings exists in the document.     *)
(***************************************************************************)
Element(tag, text, children, tail) ==
    [tag |-> tag, text |-> text, children |-> children, tail |-> tail]

\* text or '': the text of an element, the empty text for None.
OrEmpty(text) == IF TruthyStr(text) THEN text ELSE << >>

RECURSIVE GetElementText(_)
\* _get_element_text(element)
GetElementText(element) ==
    OrEmpty(element.text)
    \o Concat([k \in 1..Len(element.children) |->
                  GetElementText(element.children[k])
                  \o OrEmpty(element.children[k].tail)])

\* para.add_run(text): a run without formatting.  from is the tag of the inline
\* element the run was made for, the empty tag for the text and the tails of
\* the paragraph's element.
AddRun(text, from) ==
    [text |-> text, from |-> from, bold |-> None, italic |-> None, underline |-> None,
     strike |-> None, font_name |-> None, font_size |-> None, color |-> None,
     break |-> FALSE]

\* StyleMapper.apply_style_to_run(run, word_style)
ApplyStyleToRun(run, word_style) ==
    [run EXCEPT
        !.font_name = IF word_style.font_name \notin {None, <<"">>}
                      THEN word_style.font_name ELSE @,
        !.font_size = IF word_style.font_size \notin {None, <<0>>}
                      THEN word_style.font_size ELSE @,
        !.bold = IF word_style.bold # None THEN word_style.bold ELSE @,
        !.italic = IF word_style.italic # None THEN word_style.italic ELSE @,
        !.underline = IF word_style.underline # None THEN word_style.underline ELSE @]

\* The tags the walker tests for.
TagP == <<"p">>
TagPre == <<"p", "r", "e">>
TagCode == <<"c", "o", "d", "e">>
TagTable == <<"t", "a", "b", "l", "e">>
TagTr == <<"t", "r">>
TagTd == <<"t", "d">>
TagTh == <<"t", "h">>
TagUl == <<"u", "l">>
TagOl == <<"o", "l">>
TagLi == <<"l", "i">>
TagBlockquote == <<"b", "l", "o", "c", "k", "q", "u", "o", "t", "e">>
TagHr == <<"h", "r">>
TagBr == <<"b", "r">>
TagStrong == <<"s", "t", "r", "o", "n", "g">>
TagB == <<"b">>
TagEm == <<"e", "m">>
TagI == <<"i">>
TagDel == <<"d", "e", "l">>
TagS == <<"s">>
TagA == <<"a">>

\* The fallback formatting of _process_inline_elements, for a tag without a style.
FallbackFormatting(run, tag) ==
    CASE tag \in {TagStrong, TagB} -> [run EXCEPT !.bold = <<TRUE>>]
      [] tag \in {TagEm, TagI} -> [run EXCEPT !.italic = <<TRUE>>]
      [] tag = TagCode -> [run EXCEPT !.font_name = <<"Courier New">>]
      [] tag \in {TagDel, TagS} -> [run EXCEPT !.strike = <<TRUE>>]
      [] tag = TagA -> [run EXCEPT !.color = <<"blue">>, !.underline = <<TRUE>>]
      [] OTHER -> run

\* The runs _process_inline_elements makes for one child and its tail.
InlineChild(style_map, child) ==
    LET tag == Lower(child.tag)
        text == GetElementText(child)
        word_style == GetStyleForHtmlTag(style_map, tag)
    IN (IF tag = TagBr THEN <<[AddRun(<< >>, tag) EXCEPT !.break = TRUE]>>
        ELSE IF word_style # None
             THEN <<ApplyStyleToRun(AddRun(text, tag), word_style[1])>>
             ELSE <<FallbackFormatting(AddRun(text, tag), tag)>>)
       \o (IF TruthyStr(child.tail) THEN <<AddRun(child.tail, << >>)>> ELSE << >>)

\* _process_inline_elements(para, element): the runs added to para.
ProcessInlineElements(style_map, element) ==
    (IF TruthyStr(element.text) THEN <<AddRun(element.text, << >>)>> ELSE << >>)
    \o Concat([k \in 1..Len(element.children) |->
                  InlineChild(style_map, element.children[k])])

\* A paragraph of the document with its runs.
RunParagraph(runs, style) ==
    [kind |-> "paragraph", style |-> style, level |-> 0, runs |-> runs, rows |-> << >>]

\* doc.add_paragraph(text)
AddParagraph(text) ==
    RunParagraph(IF text # << >> THEN <<AddRun(text, << >>)>> ELSE << >>, "Normal")

\* doc.add_heading(text, level)
AddHeading(text, level) ==
    [kind |-> "heading", style |-> "Heading", level |-> level,
     runs |-> IF text # << >> THEN <<AddRun(text, << >>)>> ELSE << >>, rows |-> << >>]

\* doc.add_table(rows, cols) with the text of its cells filled in.
AddedTable(rows) ==
    [kind |-> "table", style |-> "Table", level |-> 0, runs |-> << >>, rows |-> rows]

\* StyleMapper.apply_style_to_paragraph(paragraph, word_style)
ApplyStyleToParagraph(paragraph, word_style) ==
    IF word_style.paragraph_style \notin {None, <<"">>}
    THEN [paragraph EXCEPT !.style = word_style.paragraph_style[1]]
    ELSE paragraph

\* para = doc.add_paragraph(); the style of the tag; _process_inline_elements
InlineParagraph(style_map, element, tag) ==
    LET word_style == GetStyleForHtmlTag(style_map, tag)
        para == RunParagraph(ProcessInlineElements(style_map, element), "Normal")
    IN IF word_style # None THEN ApplyStyleToParagraph(para, word_style[1]) ELSE para

\* element.find(tag): the first child with the tag, None when there is none.
Find(element, tag) ==
    LET found == {k \in 1..Len(element.children) : element.children[k].tag = tag}
    IN IF found = {} THEN None ELSE <<element.children[Least(found)]>>

\* element.findall(tag): the children with the tag.
FindAll(element, tag) == SelectSeq(element.children, LAMBDA child : child.tag = tag)

RECURSIVE FindAllBelow(_, _)
\* element.findall('.//' + tag): the elements below element with the tag, in
\* document order.
FindAllBelow(element, tag) ==
    Concat([k \in 1..Len(element.children) |->
               (IF element.children[k].tag = tag THEN <<element.children[k]>> ELSE << >>)
               \o FindAllBelow(element.children[k], tag)])

\* _add_code_block(doc, element), for an element without a class attribute.
AddHtmlCodeBlock(style_map, element) ==
    LET word_style == GetWordStyle(style_map, "pre")
        para == AddParagraph(GetElementText(element))
    IN IF word_style # None
       THEN <<[ApplyStyleToParagraph(para, word_style[1]) EXCEPT
                  !.runs = [r \in 1..Len(para.runs) |->
                               ApplyStyleToRun(para.runs[r], word_style[1])]]>>
       ELSE <<[para EXCEPT
                  !.runs = [r \in 1..Len(para.runs) |->
                               [para.runs[r] EXCEPT !.font_name = <<"Courier New">>,
                                                    !.font_size = <<10>>]]]>>

\* code_element or element: an element without children is false.
CodeElementOr(element) ==
    LET code_element == Find(element, TagCode)
    IN IF code_element # None /\ code_element[1].children # << >>
       THEN code_element[1] ELSE element

\* The rows _add_html_table collects: the text of the td cells, then of the th
\* cells, of every tr that has a cell.
HtmlTableRows(table_element) ==
    LET row_elems == FindAllBelow(table_element, TagTr)
        RowData(row_elem) ==
            LET cell_elems == FindAllBelow(row_elem, TagTd) \o FindAllBelow(row_elem, TagTh)
            IN [c \in 1..Len(cell_elems) |-> GetElementText(cell_elems[c])]
    IN SelectSeq([r \in 1..Len(row_elems) |-> RowData(row_elems[r])],
                 LAMBDA row_data : row_data # << >>)

\* doc.add_table(rows=len(rows), cols=len(rows[0])) and the populate loop of
\* _add_html_table: a cell gets its text when the table row has the column.
FilledHtmlTable(rows) ==
    LET assigned == {rc \in DataCells(rows) : rc[2] <= Len(rows[1])}
    IN AddedTable([r \in 1..Len(rows) |->
                     [c \in 1..Len(rows[1]) |->
                         IF <<r, c>> \in assigned THEN rows[r][c] ELSE << >>]])

\* _add_html_table(doc, table_element): a table as wide as the first row.
AddHtmlTable(table_element) ==
    LET rows == HtmlTableRows(table_element)
    IN IF rows = << >> THEN << >> ELSE <<FilledHtmlTable(rows)>>

\* _add_list(doc, list_element, ordered): a paragraph for every li child.
AddList(style_map, list_element, ordered) ==
    LET items == FindAll(list_element, TagLi)
        word_style == GetWordStyle(style_map, IF ordered THEN "ol" ELSE "ul")
        Item(li_elem) ==
            LET para == AddParagraph(GetElementText(li_elem))
            IN IF word_style # None THEN ApplyStyleToParagraph(para, word_style[1])
               ELSE [para EXCEPT !.style = IF ordered THEN "List Number" ELSE "List Bullet"]
    IN [k \in 1..Len(items) |-> Item(items[k])]

\* The heading tags h1 .. h6 and int(tag[1]).
Digits == <<"1", "2", "3", "4", "5", "6">>
IsHeadingTag(tag) == Len(tag) = 2 /\ tag[1] = "h" /\ \E n \in 1..Len(Digits) : Digits[n] = tag[2]
HeadingTagLevel(tag) == CHOOSE n \in 1..Len(Digits) : Digits[n] = tag[2]

\* The rule an hr is drawn as: fifty box-drawing dashes (U+2500), a character
\* written "<dash>" here.
RuleText == [n \in 1..50 |-> "<dash>"]

\* The if / elif chain of _process_html_element: what the element itself adds.
ElementBranch(style_map, element) ==
    LET tag == Lower(element.tag)
    IN CASE IsHeadingTag(tag) ->
              <<AddHeading(GetElementText(element), HeadingTagLevel(tag))>>
         [] tag = TagP -> <<InlineParagraph(style_map, element, tag)>>
         [] tag = TagPre -> AddHtmlCodeBlock(style_map, CodeElementOr(element))
         [] tag = TagTable -> AddHtmlTable(element)
         [] tag = TagUl -> AddList(style_map, element, FALSE)
         [] tag = TagOl -> AddList(style_map, element, TRUE)
         [] tag = TagBlockquote -> <<InlineParagraph(style_map, element, tag)>>
         [] tag = TagHr -> <<RunParagraph(<<AddRun(RuleText, tag)>>, "Normal")>>
         [] OTHER -> << >>

\* if element.tail and element.tail.strip(): doc.add_paragraph(element.tail.strip())
TailParagraph(element) ==
    IF TruthyStr(element.tail) /\ Strip(element.tail) # << >>
    THEN <<AddParagraph(Strip(element.tail))>> ELSE << >>

RECURSIVE ProcessHtmlElement(_, _)
\* _process_html_element(doc, element): what it adds to doc, the branch of the
\* element, the paragraph of its tail, then every child in turn.
ProcessHtmlElement(style_map, element) ==
    ElementBranch(style_map, element)
    \o TailParagraph(element)
    \o Concat([k \in 1..Len(element.children) |->
                  ProcessHtmlElement(style_map, element.children[k])])

\* --------------------------------------------------------------- the trees
\* A leaf and an element with children, both without a tail.
Leaf(tag, text) == Element(tag, text, << >>, NoText)
Node(tag, children) == Element(tag, NoText, children, NoText)
WithTail(element, tail) == [element EXCEPT !.tail = tail]

\* The children of root the walker is given:
\*   <p>a<strong>b</strong>c</p>       <p>a</p> and a line break after it
\*   <h2>t</h2>                        <blockquote><p>q</p></blockquote>
\*   <ul><li>i</li></ul>               <p>a<del>d</del></p>
\*   <p><S>d</S> e</p>                 <pre><code>k</code></pre>
\*   a table of a header row and a body row     <hr/>
\*   a table of a row of two cells, a row of one cell and a row of three cells
\*   <div>z</div>                      <p>a<br/>b</p>
RootChildren ==
    { Element(TagP, <<"a">>, <<WithTail(Leaf(TagStrong, <<"b">>), <<"c">>)>>, NoText),
      WithTail(Leaf(TagP, <<"a">>), <<"\n">>),
      Leaf(<<"h", "2">>, <<"t">>),
      Node(TagBlockquote, <<Leaf(TagP, <<"q">>)>>),
      Node(TagUl, <<Leaf(TagLi, <<"i">>)>>),
      Element(TagP, <<"a">>, <<Leaf(TagDel, <<"d">>)>>, NoText),
      Node(TagP, <<WithTail(Leaf(<<"S">>, <<"d">>), <<" ", "e">>)>>),
      Node(TagPre, <<Leaf(TagCode, <<"k">>)>>),
      Node(TagTable, <<Node(<<"t", "h", "e", "a", "d">>,
                            <<Node(TagTr, <<Leaf(TagTh, <<"x">>)>>)>>),
                       Node(<<"t", "b", "o", "d", "y">>,
                            <<Node(TagTr, <<Leaf(TagTd, <<"y">>)>>)>>)>>),
      Node(TagTable, <<Node(TagTr, <<Leaf(TagTh, <<"a">>), Leaf(TagTh, <<"b">>)>>),
                       Node(TagTr, <<Leaf(TagTd, <<"c">>)>>),
                       Node(TagTr, <<Leaf(TagTd, <<"d">>), Leaf(TagTd, <<"e">>),
                                     Leaf(TagTd, <<"f">>)>>)>>),
      Leaf(TagHr, NoText),
      Leaf(<<"d", "i", "v">>, <<"z">>),
      Element(TagP, <<"a">>, <<WithTail(Leaf(TagBr, NoText), <<"b">>)>>, NoText) }

\* root.text: None, or a text in front of the first child.
RootTexts == {NoText, <<"r">>}

Roots ==
    {Element(<<"r", "o", "o", "t">>, text, children, NoText) :
        text \in RootTexts, children \in SeqsUpTo(RootChildren, MaxChildren)}

InitWalk == wkRoot = << >> /\ wkIdx = 1 /\ wkDoc = << >> /\ wkPc = "idle"

\* root = ET.fromstring(...)
ConvertHtmlToDocxCall ==
    /\ wkPc = "idle"
    /\ \E root \in Roots : wkRoot' = root
    /\ wkPc' = "children"
    /\ UNCHANGED <<wkIdx, wkDoc>>
    /\ UNCHANGED nonWalkVars

\* for child in root: self._process_html_element(doc, child)
ProcessRootChild ==
    /\ wkPc = "children"
    /\ wkIdx <= Len(wkRoot.children)
    /\ wkDoc' = wkDoc \o ProcessHtmlElement(CreateDefaultMappings, wkRoot.children[wkIdx])
    /\ wkIdx' = wkIdx + 1
    /\ UNCHANGED <<wkRoot, wkPc>>
    /\ UNCHANGED nonWalkVars

\* if root.text and root.text.strip(): doc.add_paragraph(root.text.strip())
RootText ==
    /\ wkPc = "children"
    /\ wkIdx > Len(wkRoot.children)
    /\ wkDoc' = wkDoc \o (IF TruthyStr(wkRoot.text) /\ Strip(wkRoot.text) # << >>
                          THEN <<AddParagraph(Strip(wkRoot.text))>> ELSE << >>)
    /\ wkPc' = "done"
    /\ UNCHANGED <<wkRoot, wkIdx>>
    /\ UNCHANGED nonWalkVars

NextWalk == ConvertHtmlToDocxCall \/ ProcessRootChild \/ RootText

\* ------------------------------------------------------------------ claims
\* The runs of the document, block by block.
RunsOf(doc) == Concat([n \in 1..Len(doc) |-> doc[n].runs])

\* C12: every run the walker makes for a del or an s element is struck
\* through: its font.strike is set.
C12_StrikeRuns ==
    \A n \in 1..Len(RunsOf(wkDoc)) :
        Lower(RunsOf(wkDoc)[n].from) \in {TagDel, TagS} => RunsOf(wkDoc)[n].strike = <<TRUE>>

\* The text of a document in order: the runs of its paragraphs and headings,
\* the cells of its tables row by row; the rule of an hr is not text.
DocText(doc) ==
    Concat([n \in 1..Len(doc) |->
               IF doc[n].kind = "table"
               THEN Concat([r \in 1..Len(doc[n].rows) |-> Concat(doc[n].rows[r])])
               ELSE Concat([r \in 1..Len(doc[n].runs) |->
                               IF doc[n].runs[r].from = TagHr THEN << >>
                               ELSE doc[n].runs[r].text])])

\* A text without its white space.
NoSpace(text) == SelectSeq(text, LAMBDA c : c \notin {" ", "\n", "\t", "\r"})

\* C18: when the walk is over the document holds every text fragment of the
\* tree exactly once and in the order of the markup (white space aside).
C18_EveryFragmentOnceInOrder ==
    wkPc = "done" => NoSpace(DocText(wkDoc)) = NoSpace(GetElementText(wkRoot))

(***************************************************************************)
(* Part 10: the text functions.                                            *)
(*                                                                         *)
(* SimpleImprovedConverter._preprocess_markdown and                        *)
(* PandocConverter.validate_markdown are functions of a text; a call picks *)
(* the text and records what the function returned.                        *)
(***************************************************************************)
\* A variant of validate_markdown that takes any "|" for a table.
ValidateMarkdownAnyBar(markdown_content) ==
    LET f1 == IF Contains(markdown_content, <<"-", " ", "[">>) THEN <<"task_lists">> ELSE << >>
        f2 == IF Contains(markdown_content, <<"|">>) THEN Append(f1, "tables") ELSE f1
        f3 == IF Contains(markdown_content, <<"~", "~">>) THEN Append(f2, "strikethrough") ELSE f2
        f4 == IF Contains(markdown_content, Fence) THEN Append(f3, "code_blocks") ELSE f3
    IN [valid |-> TRUE, features_detected |-> f4, converter |-> "pandoc"]

\* PandocConverter.validate_markdown(markdown_content): features after each if.
ValidateMarkdown(markdown_content) ==
    LET f1 == IF Contains(markdown_content, <<"-", " ", "[">>) THEN <<"task_lists">> ELSE << >>
        f2 == IF /\ Contains(markdown_content, <<"|">>)
                 /\ Contains(markdown_content, <<"-", "-", "-">>)
              THEN Append(f1, "tables") ELSE f1
        f3 == IF Contains(markdown_content, <<"~", "~">>) THEN Append(f2, "strikethrough") ELSE f2
        f4 == IF Contains(markdown_content, Fence) THEN Append(f3, "code_blocks") ELSE f3
    IN [valid |-> TRUE, features_detected |-> f4, converter |-> "pandoc"]

\* The pieces the texts are put together from.
TextPieces ==
    { <<"a">>, <<"\n">>, <<" ">>,
      <<"-", " ", "[", "x", "]">>, <<"-", " ", "[", " ", "]">>,
      <<"~", "~">>, <<"~", "~", "b", "~", "~">>,
      <<"-", "-", "-", "\n">>, <<"|">>, Fence }

Texts == {Concat(ps) : ps \in SeqsUpTo(TextPieces, MaxTextParts)}

InitText == txOp = "none" /\ txArg = << >> /\ txRet = << >>

\* processed_content = self._preprocess_markdown(content)
PreprocessMarkdownCall ==
    /\ txOp = "none"
    /\ \E content \in Texts :
          /\ txArg' = content
          /\ txRet' = PreprocessMarkdown(content)
    /\ txOp' = "_preprocess_markdown"
    /\ UNCHANGED nonTextVars

\* converter.validate_markdown(markdown_content)
ValidateMarkdownCall ==
    /\ txOp = "none"
    /\ \E markdown_content \in Texts :
          /\ txArg' = markdown_content
          /\ txRet' = ValidateMarkdown(markdown_content)
    /\ txOp' = "validate_markdown"
    /\ UNCHANGED nonTextVars

NextText == PreprocessMarkdownCall \/ ValidateMarkdownCall

\* ------------------------------------------------------------------ claims
RECURSIVE StrikeKeepingTextFrom(_, _)
\* The part of s from position i on with every strikethrough span ~~X~~
\* rewritten to <del>X</del>.
StrikeKeepingTextFrom(s, i) ==
    LET starts == {j \in i..Len(s) : StrikeMatchAt(s, j).end # 0}
    IN IF starts = {} THEN SubSeq(s, i, Len(s))
       ELSE LET j == Least(starts)
                end == StrikeMatchAt(s, j).end
            IN SubSeq(s, i, j - 1)
               \o <<"<", "d", "e", "l", ">">> \o SubSeq(s, j + 2, end - 2)
               \o <<"<", "/", "d", "e", "l", ">">>
               \o StrikeKeepingTextFrom(s, end + 1)

\* C13: _preprocess_markdown turns every span ~~X~~ into <del>X</del> with
\* the same X and leaves the text outside the spans (front matter and
\* task-list markers aside) as it is.
C13_StrikethroughKeepsText ==
    txOp = "_preprocess_markdown" =>
        txRet = StrikeKeepingTextFrom(TaskSub(FrontMatterSub(txArg)), 1)

\* A line with its task-list marker rewritten: the indentation, "- ", the
\* ballot box, the rest of the line.
TaskLine(line) ==
    LET rest == {k \in 1..Len(line) : line[k] \notin {" ", "\t"}}
        w == IF rest = {} THEN Len(line) + 1 ELSE Least(rest)
        Marked(box) == SubSeq(line, 1, w - 1) \o <<"-", " ", box>>
                       \o SubSeq(line, w + 5, Len(line))
    IN IF IsAt(line, w, <<"-", " ", "[", "x", "]">>) THEN Marked(CheckedBox)
       ELSE IF IsAt(line, w, <<"-", " ", "[", " ", "]">>) THEN Marked(UncheckedBox)
       ELSE line

\* C14: _preprocess_markdown rewrites a line that starts, after its
\* indentation, with "- [x]" or "- [ ]" to the same indentation, "- " and the
\* checked or unchecked ballot box, and leaves the rest of the line as it is
\* (texts without front matter and strikethrough).
C14_TaskListItems ==
    (/\ txOp = "_preprocess_markdown"
     /\ FrontMatterEnd(txArg) = 0
     /\ ~Contains(txArg, <<"~", "~">>))
    => txRet = Join(<<"\n">>, [k \in 1..Len(SplitLines(txArg)) |->
                                  TaskLine(SplitLines(txArg)[k])])

\* The features validate_markdown reports, in the order it reports them.
FeatureOrder == <<"task_lists", "tables", "strikethrough", "code_blocks">>

\* What the text must contain for a feature to be reported.
HasFeature(text, feature) ==
    CASE feature = "task_lists" -> Contains(text, <<"-", " ", "[">>)
      [] feature = "tables" -> Contains(text, <<"|">>) /\ Contains(text, <<"-", "-", "-">>)
      [] feature = "strikethrough" -> Contains(text, <<"~", "~">>)
      [] feature = "code_blocks" -> Contains(text, Fence)

\* C17: validate_markdown returns valid True and converter "pandoc", and
\* features_detected holds, in the fixed order and nothing else, task_lists
\* iff the text contains "- [", tables iff it contains "|" and "---",
\* strikethrough iff it contains "~~", code_blocks iff it contains a fence.
C17_ValidateMarkdown ==
    txOp = "validate_markdown" =>
        /\ txRet.valid = TRUE
        /\ txRet.converter = "pandoc"
        /\ DOMAIN txRet = {"valid", "features_detected", "converter"}
        /\ txRet.features_detected =
              SelectSeq(FeatureOrder, LAMBDA feature : HasFeature(txArg, feature))

\* A text with a "|" and no "---", one with every feature.
C17_Witness ==
    /\ txOp = "validate_markdown"
    /\ Contains(txArg, <<"|">>)
    /\ ~Contains(txArg, <<"-", "-", "-">>)
    /\ Len(txRet.features_detected) >= 1

(***************************************************************************)
(* Part 11: MarkdownConverter._process_inline_formatting.                  *)
(*                                                                         *)
(* The loop over re.finditer(pattern, text): a step takes the next match   *)
(* and adds a run for it.  The text is a stripped line: it holds no line   *)
(* break.                                                                  *)
(***************************************************************************)
\* The characters of the markers.
Markers == {"*", "~", BackTick}

\* Where the match of the pattern that starts at position i of s ends, 0 when
\* there is none.  The alternatives are tried in order: two stars, the
\* shortest text, two stars; a star, the shortest text, a star; two tildes,
\* the shortest text, two tildes; a backtick, the shortest text of one
\* character or more, a backtick; the longest text without a marker.
InlineMatchEnd(s, i) ==
    LET Closing(from, w) == {j \in from..Len(s) : IsAt(s, j, w)}
        EndAt(from, w) == Least(Closing(from, w)) + Len(w) - 1
        others == {j \in i..Len(s) : s[j] \in Markers}
    IN IF IsAt(s, i, <<"*", "*">>) /\ Closing(i + 2, <<"*", "*">>) # {}
            THEN EndAt(i + 2, <<"*", "*">>)
       ELSE IF IsAt(s, i, <<"*">>) /\ Closing(i + 1, <<"*">>) # {}
            THEN EndAt(i + 1, <<"*">>)
       ELSE IF IsAt(s, i, <<"~", "~">>) /\ Closing(i + 2, <<"~", "~">>) # {}
            THEN EndAt(i + 2, <<"~", "~">>)
       ELSE IF IsAt(s, i, <<BackTick>>) /\ Closing(i + 2, <<BackTick>>) # {}
            THEN EndAt(i + 2, <<BackTick>>)
       ELSE IF i <= Len(s) /\ s[i] \notin Markers
            THEN (IF others = {} THEN Len(s) ELSE Least(others) - 1)
       ELSE 0

\* The positions >= pos at which a match starts: finditer takes the first.
MatchStarts(s, pos) == {i \in pos..Len(s) : InlineMatchEnd(s, i) # 0}

\* content[a:-b]
Slice(content, a, b) == SubSeq(content, a + 1, Len(content) - b)

\* The branch of the if / elif chain content takes.
InlineBranch(content) ==
    IF StartsWith(content, <<"*", "*">>) /\ EndsWith(content, <<"*", "*">>) THEN "bold"
    ELSE IF StartsWith(content, <<"*">>) /\ EndsWith(content, <<"*">>) THEN "italic"
    ELSE IF StartsWith(content, <<"~", "~">>) /\ EndsWith(content, <<"~", "~">>) THEN "strike"
    ELSE IF StartsWith(content, <<BackTick>>) /\ EndsWith(content, <<BackTick>>) THEN "code"
    ELSE "regular"

\* A variant of the run that cuts two characters off both ends of every
\* marked content.
InlineRunCutsTwo(content) ==
    IF InlineBranch(content) = "regular" THEN AddRun(content, << >>)
    ELSE AddRun(Slice(content, 2, 2), << >>)

\* The run the chain adds for content.
InlineRun(content) ==
    CASE InlineBranch(content) = "bold" ->
            [AddRun(Slice(content, 2, 2), << >>) EXCEPT !.bold = <<TRUE>>]
      [] InlineBranch(content) = "italic" ->
            [AddRun(Slice(content, 1, 1), << >>) EXCEPT !.italic = <<TRUE>>]
      [] InlineBranch(content) = "strike" ->
            [AddRun(Slice(content, 2, 2), << >>) EXCEPT !.strike = <<TRUE>>]
      [] InlineBranch(content) = "code" ->
            [AddRun(Slice(content, 1, 1), << >>) EXCEPT !.font_name = <<"Courier New">>]
      [] OTHER -> AddRun(content, << >>)

\* The pieces the lines are put together from.
InlinePieces ==
    { <<"a">>, <<"b", " ", "c">>, <<"*", "a", "*">>,
      <<"*">>, <<"*", "*">>, <<"~", "~">>, <<BackTick>> }

\* The texts _process_inline_formatting is called with: stripped lines that
\* are not empty.
InlineTexts ==
    {Concat(ps) : ps \in SeqsUpTo(InlinePieces, MaxInlineParts)} \ {<< >>}

InitFormat == fmText = << >> /\ fmPos = 1 /\ fmRuns = << >> /\ fmPc = "idle"

\* self._process_inline_formatting(para, text) is called
ProcessInlineFormattingCall ==
    /\ fmPc = "idle"
    /\ \E text \in InlineTexts : fmText' = text
    /\ fmPc' = "loop"
    /\ UNCHANGED <<fmPos, fmRuns>>
    /\ UNCHANGED nonFormatVars

\* One iteration of the loop, for a match whose content takes branch b.
FormatStep(b) ==
    /\ fmPc = "loop"
    /\ MatchStarts(fmText, fmPos) # {}
    /\ \E start \in {Least(MatchStarts(fmText, fmPos))} :
          \E end \in {InlineMatchEnd(fmText, start)} :
              \E content \in {SubSeq(fmText, start, end)} :
                  /\ InlineBranch(content) = b
                  /\ fmRuns' = Append(fmRuns, InlineRun(content))
                  /\ fmPos' = end + 1
    /\ UNCHANGED <<fmText, fmPc>>
    /\ UNCHANGED nonFormatVars

\* if content.startswith('**') and content.endswith('**')
BoldRun == FormatStep("bold")
\* elif content.startswith('*') and content.endswith('*')
ItalicRun == FormatStep("italic")
\* elif content.startswith('~~') and content.endswith('~~')
StrikeRun == FormatStep("strike")
\* elif content.startswith(backtick) and content.endswith(backtick)
CodeRun == FormatStep("code")
\* else: para.add_run(content)
RegularRun == FormatStep("regular")

\* finditer has no further match: the function returns.
ProcessInlineFormattingReturn ==
    /\ fmPc = "loop"
    /\ MatchStarts(fmText, fmPos) = {}
    /\ fmPc' = "done"
    /\ UNCHANGED <<fmText, fmPos, fmRuns>>
    /\ UNCHANGED nonFormatVars

NextFormat ==
    \/ ProcessInlineFormattingCall
    \/ BoldRun \/ ItalicRun \/ StrikeRun \/ CodeRun \/ RegularRun
    \/ ProcessInlineFormattingReturn

\* ------------------------------------------------------------------ claims
\* The text of the runs added so far.
RunsText == Concat([n \in 1..Len(fmRuns) |-> fmRuns[n].text])

\* The part of the text the loop is done with: all of it after the return.
Scanned == IF fmPc = "done" THEN fmText ELSE SubSeq(fmText, 1, fmPos - 1)

\* A text without its marker characters.
NoMarkers(text) == SelectSeq(text, LAMBDA c : c \notin Markers)

RECURSIVE LeftBy(_, _)
\* text can be made from whole by leaving out marker characters only.
LeftBy(text, whole) ==
    IF whole = << >> THEN text = << >>
    ELSE IF text # << >> /\ Head(text) = Head(whole) /\ LeftBy(Tail(text), Tail(whole))
         THEN TRUE
         ELSE Head(whole) \in Markers /\ LeftBy(text, Tail(whole))

\* C24: the texts of the runs _process_inline_formatting adds, put together,
\* are the line with some of its marker characters left out and nothing else
\* changed: every other character is there once and in its place.
C24_InlineFormattingConservesText ==
    /\ LeftBy(RunsText, Scanned)
    /\ NoMarkers(RunsText) = NoMarkers(Scanned)

\* C24 witness: the function has returned; it made a run with a format and a
\* text and another run, and the line ends with marker characters it found no
\* match for.
C24_Witness ==
    /\ fmPc = "done"
    /\ \E n \in 1..Len(fmRuns) :
          /\ fmRuns[n].bold = <<TRUE>> \/ fmRuns[n].italic = <<TRUE>>
          /\ NoMarkers(fmRuns[n].text) # << >>
    /\ Len(fmRuns) >= 2
    /\ fmPos <= Len(fmText)

(***************************************************************************)
(* The tables of both converters.                                          *)
(***************************************************************************)
\* Either converter: the loop of MarkdownConverter._convert_content or the
\* tree walker of SimpleImprovedConverter.
NextTables == NextContent \/ NextWalk

\* The cells of a Word table are those of the collected rows: a row for each,
\* in order, as many columns as the first of them has cells; the text of a
\* cell is the text collected for it, the empty text when the row is short.
ShapedAs(cells, rows) ==
    /\ Len(cells) = Len(rows)
    /\ \A r \in 1..Len(rows) :
          /\ Len(cells[r]) = Len(rows[1])
          /\ \A c \in 1..Len(rows[1]) :
                cells[r][c] = IF c <= Len(rows[r]) THEN rows[r][c] ELSE << >>

\* C22: the Word table _add_table and _add_html_table build has one row for
\* each collected row, in order, and as many columns as the first collected
\* row has cells; a cell holds the text collected for it, the cells a row has
\* beyond the columns are dropped, the cells it lacks stay empty, and no cell
\* outside the table is assigned.
C22_TableShape ==
    /\ \A it \in Iterations :
          (it.branch = "table" /\ it.added # << >>) =>
              LET rows == TableRows(LinesOf(it))
              IN /\ CellsAssigned(rows) \subseteq (1..Len(rows)) \X (1..Len(rows[1]))
                 /\ Len(it.added) = 1
                 /\ it.added[1].kind = "table"
                 /\ ShapedAs(it.added[1].rows, rows)
    /\ \A k \in 1..(wkIdx - 1) :
          LET rows == HtmlTableRows(wkRoot.children[k])
          IN (wkRoot.children[k].tag = TagTable /\ rows # << >>) =>
                \E n \in 1..Len(wkDoc) :
                    wkDoc[n].kind = "table" /\ ShapedAs(wkDoc[n].rows, rows)

\* A row longer than the first one and a row shorter than the first one.
Ragged(rows) ==
    /\ \E r \in 1..Len(rows) : Len(rows[r]) > Len(rows[1])
    /\ \E r \in 1..Len(rows) : Len(rows[r]) < Len(rows[1])

\* C22 witness: the walk is over and has made a table from a row of two
\* cells, a shorter row and a longer row.
C22_Witness ==
    /\ wkPc = "done"
    /\ \E k \in 1..Len(wkRoot.children) :
          /\ wkRoot.children[k].tag = TagTable
          /\ Ragged(HtmlTableRows(wkRoot.children[k]))
    /\ \E n \in 1..Len(wkDoc) : wkDoc[n].kind = "table" /\ Len(wkDoc[n].rows) = 3

(***************************************************************************)
(* The specifications.                                                     *)
(***************************************************************************)
IdleBatch ==
    /\ mdOnDisk = {} /\ dirsOnDisk = {} /\ docxOnDisk = << >>
    /\ fsAtCall = <<{}, << >> >>
    /\ bOp = "none" /\ bArg = << >> /\ bFiles = << >> /\ bIdx = 1
    /\ results = << >> /\ happened = << >> /\ successful_conversions = 0
    /\ bRet = NoReturn /\ bPc = "idle"

IdleTools == InitTools

IdleImages ==
    /\ iContent = << >> /\ image_matches = << >> /\ iIdx = 1 /\ iProcessed = << >>
    /\ iDoc = << >> /\ iHappened = << >> /\ iPc = "off"

IdleMermaid ==
    /\ mContent = << >> /\ mermaid_available = FALSE /\ mermaid_matches = << >>
    /\ mIdx = 1 /\ mProcessed = << >> /\ mDoc = << >> /\ mHappened = << >> /\ mPc = "off"

IdleTemplates == tmFiles = {} /\ template_dirs = << >> /\ NoTemplateCall

IdleConvert ==
    /\ cClass = "none" /\ self_template_path = NoText /\ cArgs = << >>
    /\ cMermaidAvailable = FALSE /\ cPc = "off" /\ cLog = << >>
    /\ template_path = NoText /\ cDocFrom = NoText /\ cDoc = << >> /\ core_props = {}
    /\ processed_content = << >> /\ cFound = << >> /\ cMainInput = << >>

IdleContent ==
    /\ ccContent = << >> /\ ccLines = << >> /\ ccI = 0 /\ ccBody = << >> /\ ccIter = << >>
    /\ ccPc = "off"

IdleStyles ==
    /\ style_maps = << >> /\ smBefore = << >> /\ smCall = NoStyleCall /\ smRet = None
    /\ smUpdates = 0

IdleWalk == wkRoot = << >> /\ wkIdx = 1 /\ wkDoc = << >> /\ wkPc = "off"

IdleText == txOp = "off" /\ txArg = << >> /\ txRet = << >>

\* The parts added after the first six, at rest.
IdleFormat == fmText = << >> /\ fmPos = 1 /\ fmRuns = << >> /\ fmPc = "off"

IdleLater == IdleContent /\ IdleStyles /\ IdleWalk /\ IdleText /\ IdleFormat

\* The first six parts at rest.
IdleFirst ==
    IdleBatch /\ IdleTools /\ IdleImages /\ IdleMermaid /\ IdleTemplates /\ IdleConvert

\* The states a specification starts from: the initial states of its part, the
\* other parts at rest.
StartBatch ==
    InitBatch /\ IdleTools /\ IdleImages /\ IdleMermaid /\ IdleTemplates /\ IdleConvert /\ IdleLater
StartTools ==
    InitTools /\ IdleBatch /\ IdleImages /\ IdleMermaid /\ IdleTemplates /\ IdleConvert /\ IdleLater
StartImages ==
    InitImages /\ IdleBatch /\ IdleTools /\ IdleMermaid /\ IdleTemplates /\ IdleConvert /\ IdleLater
StartMermaid ==
    InitMermaid /\ IdleBatch /\ IdleTools /\ IdleImages /\ IdleTemplates /\ IdleConvert /\ IdleLater
StartTemplates ==
    InitTemplates /\ IdleBatch /\ IdleTools /\ IdleImages /\ IdleMermaid /\ IdleConvert /\ IdleLater
StartConvert ==
    InitConvert /\ IdleBatch /\ IdleTools /\ IdleImages /\ IdleMermaid /\ IdleLater

StartContent ==
    InitContent /\ IdleFirst /\ IdleStyles /\ IdleWalk /\ IdleText /\ IdleFormat
StartStyles ==
    InitStyles /\ IdleFirst /\ IdleContent /\ IdleWalk /\ IdleText /\ IdleFormat
StartWalk ==
    InitWalk /\ IdleFirst /\ IdleContent /\ IdleStyles /\ IdleText /\ IdleFormat
StartTables == StartContent \/ StartWalk
StartText ==
    InitText /\ IdleFirst /\ IdleContent /\ IdleStyles /\ IdleWalk /\ IdleFormat
StartFormat ==
    InitFormat /\ IdleFirst /\ IdleContent /\ IdleStyles /\ IdleWalk /\ IdleText

SpecBatch == StartBatch /\ [][NextBatch]_vars

\* The Pandoc server's batch tool, over the same file system.
SpecServerBatch == StartBatch /\ [][NextServerBatch]_vars

SpecTools == StartTools /\ [][NextTools]_vars

SpecImages == StartImages /\ [][NextImages]_vars

SpecMermaid == StartMermaid /\ [][NextMermaid]_vars

SpecTemplates == StartTemplates /\ [][NextTemplates]_vars

SpecConvert == StartConvert /\ [][NextConvert]_vars

SpecContent == StartContent /\ [][NextContent]_vars

SpecStyles == StartStyles /\ [][NextStyles]_vars

SpecWalk == StartWalk /\ [][NextWalk]_vars

\* A table is built by one converter or the other.
SpecTables == StartTables /\ [][NextTables]_vars

SpecText == StartText /\ [][NextText]_vars

SpecFormat == StartFormat /\ [][NextFormat]_vars

\* The loop is not suspended: an iteration that can be made is made.
SpecContentFair == StartContent /\ [][NextContent]_vars /\ WF_vars(NextContent)
====
